---- MODULE Spec2Model ----
(***************************************************************************)
(* A model of generate_nav.py: the navigation generator that walks the     *)
(* include graph of AsciiDoc master files and emits nav.adoc.              *)
(*                                                                         *)
(* Text is modelled character by character: a string is a sequence of      *)
(* one-character strings, a file is a sequence of lines.  A path is the    *)
(* sequence of its components relative to PAGES_DIR.                       *)
(***************************************************************************)
EXTENDS Integers, Sequences, FiniteSets, TLC

\* ------------------------------------------------------------------------
\* Configuration (generate_nav.py, lines 16-41)
\* ------------------------------------------------------------------------

UsersGuide == <<"usersguide", "usersguide.adoc">>
InstallGuide == <<"installguide", "installguide.adoc">>
ReferenceGuide == <<"referenceguide", "referenceguide.adoc">>

MASTER_FILES == <<UsersGuide, InstallGuide, ReferenceGuide>>

MAX_NAV_DEPTH == 4

ALLOWED_SECTION_LEVELS == {3}

IGNORE_TITLES ==
  { <<"d","e","s","c","r","i","p","t","i","o","n">>,
    <<"o","p","t","i","o","n","s">>,
    <<"e","x","a","m","p","l","e">>,
    <<"e","x","a","m","p","l","e","s">>,
    <<"n","o","t","e","s">>,
    <<"s","e","e"," ","a","l","s","o">> }

PerfdmfBook == <<"perfdmf", "book.adoc">>
NewguideIntro == <<"newguide", "introduction.adoc">>
TaudbAlias == <<"referenceguide", "taudb-alias.adoc">>
InstallationAlias == <<"referenceguide", "installation-alias.adoc">>

\* The inner table shared by both keys of ALIAS_MAP.
AliasTable ==
  [p \in {PerfdmfBook, NewguideIntro} |->
     IF p = PerfdmfBook THEN TaudbAlias ELSE InstallationAlias]

\* ALIAS_MAP: keyed by the master's basename and by its full relative path.
ALIAS_MAP ==
  [k \in {<<"referenceguide.adoc">>, ReferenceGuide} |-> AliasTable]

\* ------------------------------------------------------------------------
\* Strings as sequences of characters
\* ------------------------------------------------------------------------

Range(s) == { s[i] : i \in 1..Len(s) }

\* A character up to U+00FF is written as itself; a character TLA+ cannot
\* write in a string (one beyond U+00FF, and the grave accent U+0060) is
\* written as the name of its code point, "U+3000".  The classes below are
\* those of Python's Unicode database, over all code points.

HexDigits == <<"0","1","2","3","4","5","6","7","8","9","A","B","C","D","E","F">>

\* the four last hexadecimal digits of n
Hex4(n) ==
  HexDigits[((n \div 4096) % 16) + 1] \o HexDigits[((n \div 256) % 16) + 1]
    \o HexDigits[((n \div 16) % 16) + 1] \o HexDigits[(n % 16) + 1]

\* the name of the code point n
CodePointName(n) ==
  IF n < 65536 THEN "U+" \o Hex4(n)
  ELSE IF n < 1048576 THEN "U+" \o HexDigits[(n \div 65536) + 1] \o Hex4(n)
  ELSE "U+10" \o Hex4(n)

\* the characters of the ranges rs of code points, each a pair <<first, last>>
Named(rs) ==
  { CodePointName(n) : n \in UNION { rs[i][1]..rs[i][2] : i \in DOMAIN rs } }

\* the characters up to U+00FF that str.lower() changes, and below what it
\* changes them to
UpperLetters ==
  <<"A","B","C","D","E","F","G","H","I","J","K","L","M",
    "N","O","P","Q","R","S","T","U","V","W","X","Y","Z",
    "À","Á","Â","Ã","Ä","Å","Æ","Ç","È","É","Ê","Ë","Ì",
    "Í","Î","Ï","Ð","Ñ","Ò","Ó","Ô","Õ","Ö","Ø","Ù","Ú",
    "Û","Ü","Ý","Þ">>

LowerLetters ==
  <<"a","b","c","d","e","f","g","h","i","j","k","l","m",
    "n","o","p","q","r","s","t","u","v","w","x","y","z",
    "à","á","â","ã","ä","å","æ","ç","è","é","ê","ë","ì",
    "í","î","ï","ð","ñ","ò","ó","ô","õ","ö","ø","ù","ú",
    "û","ü","ý","þ">>

\* the letters up to U+00FF that str.lower() leaves alone
UnchangedLetters == {"ª","µ","º","ß","ÿ"}

\* the decimal digits, and the other numeric characters up to U+00FF
Digits == {"0","1","2","3","4","5","6","7","8","9","²","³","¹","¼","½","¾"}

\* the alphanumeric characters beyond U+00FF
WideWordRanges ==
  << <<\h0100, \h02C1>>, <<\h02C6, \h02D1>>, <<\h02E0, \h02E4>>, <<\h02EC, \h02EC>>,
     <<\h02EE, \h02EE>>, <<\h0370, \h0374>>, <<\h0376, \h0377>>, <<\h037A, \h037D>>,
     <<\h037F, \h037F>>, <<\h0386, \h0386>>, <<\h0388, \h038A>>, <<\h038C, \h038C>>,
     <<\h038E, \h03A1>>, <<\h03A3, \h03F5>>, <<\h03F7, \h0481>>, <<\h048A, \h052F>>,
     <<\h0531, \h0556>>, <<\h0559, \h0559>>, <<\h0560, \h0588>>, <<\h05D0, \h05EA>>,
     <<\h05EF, \h05F2>>, <<\h0620, \h064A>>, <<\h0660, \h0669>>, <<\h066E, \h066F>>,
     <<\h0671, \h06D3>>, <<\h06D5, \h06D5>>, <<\h06E5, \h06E6>>, <<\h06EE, \h06FC>>,
     <<\h06FF, \h06FF>>, <<\h0710, \h0710>>, <<\h0712, \h072F>>, <<\h074D, \h07A5>>,
     <<\h07B1, \h07B1>>, <<\h07C0, \h07EA>>, <<\h07F4, \h07F5>>, <<\h07FA, \h07FA>>,
     <<\h0800, \h0815>>, <<\h081A, \h081A>>, <<\h0824, \h0824>>, <<\h0828, \h0828>>,
     <<\h0840, \h0858>>, <<\h0860, \h086A>>, <<\h0870, \h0887>>, <<\h0889, \h088E>>,
     <<\h08A0, \h08C9>>, <<\h0904, \h0939>>, <<\h093D, \h093D>>, <<\h0950, \h0950>>,
     <<\h0958, \h0961>>, <<\h0966, \h096F>>, <<\h0971, \h0980>>, <<\h0985, \h098C>>,
     <<\h098F, \h0990>>, <<\h0993, \h09A8>>, <<\h09AA, \h09B0>>, <<\h09B2, \h09B2>>,
     <<\h09B6, \h09B9>>, <<\h09BD, \h09BD>>, <<\h09CE, \h09CE>>, <<\h09DC, \h09DD>>,
     <<\h09DF, \h09E1>>, <<\h09E6, \h09F1>>, <<\h09F4, \h09F9>>, <<\h09FC, \h09FC>>,
     <<\h0A05, \h0A0A>>, <<\h0A0F, \h0A10>>, <<\h0A13, \h0A28>>, <<\h0A2A, \h0A30>>,
     <<\h0A32, \h0A33>>, <<\h0A35, \h0A36>>, <<\h0A38, \h0A39>>, <<\h0A59, \h0A5C>>,
     <<\h0A5E, \h0A5E>>, <<\h0A66, \h0A6F>>, <<\h0A72, \h0A74>>, <<\h0A85, \h0A8D>>,
     <<\h0A8F, \h0A91>>, <<\h0A93, \h0AA8>>, <<\h0AAA, \h0AB0>>, <<\h0AB2, \h0AB3>>,
     <<\h0AB5, \h0AB9>>, <<\h0ABD, \h0ABD>>, <<\h0AD0, \h0AD0>>, <<\h0AE0, \h0AE1>>,
     <<\h0AE6, \h0AEF>>, <<\h0AF9, \h0AF9>>, <<\h0B05, \h0B0C>>, <<\h0B0F, \h0B10>>,
     <<\h0B13, \h0B28>>, <<\h0B2A, \h0B30>>, <<\h0B32, \h0B33>>, <<\h0B35, \h0B39>>,
     <<\h0B3D, \h0B3D>>, <<\h0B5C, \h0B5D>>, <<\h0B5F, \h0B61>>, <<\h0B66, \h0B6F>>,
     <<\h0B71, \h0B77>>, <<\h0B83, \h0B83>>, <<\h0B85, \h0B8A>>, <<\h0B8E, \h0B90>>,
     <<\h0B92, \h0B95>>, <<\h0B99, \h0B9A>>, <<\h0B9C, \h0B9C>>, <<\h0B9E, \h0B9F>>,
     <<\h0BA3, \h0BA4>>, <<\h0BA8, \h0BAA>>, <<\h0BAE, \h0BB9>>, <<\h0BD0, \h0BD0>>,
     <<\h0BE6, \h0BF2>>, <<\h0C05, \h0C0C>>, <<\h0C0E, \h0C10>>, <<\h0C12, \h0C28>>,
     <<\h0C2A, \h0C39>>, <<\h0C3D, \h0C3D>>, <<\h0C58, \h0C5A>>, <<\h0C5D, \h0C5D>>,
     <<\h0C60, \h0C61>>, <<\h0C66, \h0C6F>>, <<\h0C78, \h0C7E>>, <<\h0C80, \h0C80>>,
     <<\h0C85, \h0C8C>>, <<\h0C8E, \h0C90>>, <<\h0C92, \h0CA8>>, <<\h0CAA, \h0CB3>>,
     <<\h0CB5, \h0CB9>>, <<\h0CBD, \h0CBD>>, <<\h0CDD, \h0CDE>>, <<\h0CE0, \h0CE1>>,
     <<\h0CE6, \h0CEF>>, <<\h0CF1, \h0CF2>>, <<\h0D04, \h0D0C>>, <<\h0D0E, \h0D10>>,
     <<\h0D12, \h0D3A>>, <<\h0D3D, \h0D3D>>, <<\h0D4E, \h0D4E>>, <<\h0D54, \h0D56>>,
     <<\h0D58, \h0D61>>, <<\h0D66, \h0D78>>, <<\h0D7A, \h0D7F>>, <<\h0D85, \h0D96>>,
     <<\h0D9A, \h0DB1>>, <<\h0DB3, \h0DBB>>, <<\h0DBD, \h0DBD>>, <<\h0DC0, \h0DC6>>,
     <<\h0DE6, \h0DEF>>, <<\h0E01, \h0E30>>, <<\h0E32, \h0E33>>, <<\h0E40, \h0E46>>,
     <<\h0E50, \h0E59>>, <<\h0E81, \h0E82>>, <<\h0E84, \h0E84>>, <<\h0E86, \h0E8A>>,
     <<\h0E8C, \h0EA3>>, <<\h0EA5, \h0EA5>>, <<\h0EA7, \h0EB0>>, <<\h0EB2, \h0EB3>>,
     <<\h0EBD, \h0EBD>>, <<\h0EC0, \h0EC4>>, <<\h0EC6, \h0EC6>>, <<\h0ED0, \h0ED9>>,
     <<\h0EDC, \h0EDF>>, <<\h0F00, \h0F00>>, <<\h0F20, \h0F33>>, <<\h0F40, \h0F47>>,
     <<\h0F49, \h0F6C>>, <<\h0F88, \h0F8C>>, <<\h1000, \h102A>>, <<\h103F, \h1049>>,
     <<\h1050, \h1055>>, <<\h105A, \h105D>>, <<\h1061, \h1061>>, <<\h1065, \h1066>>,
     <<\h106E, \h1070>>, <<\h1075, \h1081>>, <<\h108E, \h108E>>, <<\h1090, \h1099>>,
     <<\h10A0, \h10C5>>, <<\h10C7, \h10C7>>, <<\h10CD, \h10CD>>, <<\h10D0, \h10FA>>,
     <<\h10FC, \h1248>>, <<\h124A, \h124D>>, <<\h1250, \h1256>>, <<\h1258, \h1258>>,
     <<\h125A, \h125D>>, <<\h1260, \h1288>>, <<\h128A, \h128D>>, <<\h1290, \h12B0>>,
     <<\h12B2, \h12B5>>, <<\h12B8, \h12BE>>, <<\h12C0, \h12C0>>, <<\h12C2, \h12C5>>,
     <<\h12C8, \h12D6>>, <<\h12D8, \h1310>>, <<\h1312, \h1315>>, <<\h1318, \h135A>>,
     <<\h1369, \h137C>>, <<\h1380, \h138F>>, <<\h13A0, \h13F5>>, <<\h13F8, \h13FD>>,
     <<\h1401, \h166C>>, <<\h166F, \h167F>>, <<\h1681, \h169A>>, <<\h16A0, \h16EA>>,
     <<\h16EE, \h16F8>>, <<\h1700, \h1711>>, <<\h171F, \h1731>>, <<\h1740, \h1751>>,
     <<\h1760, \h176C>>, <<\h176E, \h1770>>, <<\h1780, \h17B3>>, <<\h17D7, \h17D7>>,
     <<\h17DC, \h17DC>>, <<\h17E0, \h17E9>>, <<\h17F0, \h17F9>>, <<\h1810, \h1819>>,
     <<\h1820, \h1878>>, <<\h1880, \h1884>>, <<\h1887, \h18A8>>, <<\h18AA, \h18AA>>,
     <<\h18B0, \h18F5>>, <<\h1900, \h191E>>, <<\h1946, \h196D>>, <<\h1970, \h1974>>,
     <<\h1980, \h19AB>>, <<\h19B0, \h19C9>>, <<\h19D0, \h19DA>>, <<\h1A00, \h1A16>>,
     <<\h1A20, \h1A54>>, <<\h1A80, \h1A89>>, <<\h1A90, \h1A99>>, <<\h1AA7, \h1AA7>>,
     <<\h1B05, \h1B33>>, <<\h1B45, \h1B4C>>, <<\h1B50, \h1B59>>, <<\h1B83, \h1BA0>>,
     <<\h1BAE, \h1BE5>>, <<\h1C00, \h1C23>>, <<\h1C40, \h1C49>>, <<\h1C4D, \h1C7D>>,
     <<\h1C80, \h1C88>>, <<\h1C90, \h1CBA>>, <<\h1CBD, \h1CBF>>, <<\h1CE9, \h1CEC>>,
     <<\h1CEE, \h1CF3>>, <<\h1CF5, \h1CF6>>, <<\h1CFA, \h1CFA>>, <<\h1D00, \h1DBF>>,
     <<\h1E00, \h1F15>>, <<\h1F18, \h1F1D>>, <<\h1F20, \h1F45>>, <<\h1F48, \h1F4D>>,
     <<\h1F50, \h1F57>>, <<\h1F59, \h1F59>>, <<\h1F5B, \h1F5B>>, <<\h1F5D, \h1F5D>>,
     <<\h1F5F, \h1F7D>>, <<\h1F80, \h1FB4>>, <<\h1FB6, \h1FBC>>, <<\h1FBE, \h1FBE>>,
     <<\h1FC2, \h1FC4>>, <<\h1FC6, \h1FCC>>, <<\h1FD0, \h1FD3>>, <<\h1FD6, \h1FDB>>,
     <<\h1FE0, \h1FEC>>, <<\h1FF2, \h1FF4>>, <<\h1FF6, \h1FFC>>, <<\h2070, \h2071>>,
     <<\h2074, \h2079>>, <<\h207F, \h2089>>, <<\h2090, \h209C>>, <<\h2102, \h2102>>,
     <<\h2107, \h2107>>, <<\h210A, \h2113>>, <<\h2115, \h2115>>, <<\h2119, \h211D>>,
     <<\h2124, \h2124>>, <<\h2126, \h2126>>, <<\h2128, \h2128>>, <<\h212A, \h212D>>,
     <<\h212F, \h2139>>, <<\h213C, \h213F>>, <<\h2145, \h2149>>, <<\h214E, \h214E>>,
     <<\h2150, \h2189>>, <<\h2460, \h249B>>, <<\h24EA, \h24FF>>, <<\h2776, \h2793>>,
     <<\h2C00, \h2CE4>>, <<\h2CEB, \h2CEE>>, <<\h2CF2, \h2CF3>>, <<\h2CFD, \h2CFD>>,
     <<\h2D00, \h2D25>>, <<\h2D27, \h2D27>>, <<\h2D2D, \h2D2D>>, <<\h2D30, \h2D67>>,
     <<\h2D6F, \h2D6F>>, <<\h2D80, \h2D96>>, <<\h2DA0, \h2DA6>>, <<\h2DA8, \h2DAE>>,
     <<\h2DB0, \h2DB6>>, <<\h2DB8, \h2DBE>>, <<\h2DC0, \h2DC6>>, <<\h2DC8, \h2DCE>>,
     <<\h2DD0, \h2DD6>>, <<\h2DD8, \h2DDE>>, <<\h2E2F, \h2E2F>>, <<\h3005, \h3007>>,
     <<\h3021, \h3029>>, <<\h3031, \h3035>>, <<\h3038, \h303C>>, <<\h3041, \h3096>>,
     <<\h309D, \h309F>>, <<\h30A1, \h30FA>>, <<\h30FC, \h30FF>>, <<\h3105, \h312F>>,
     <<\h3131, \h318E>>, <<\h3192, \h3195>>, <<\h31A0, \h31BF>>, <<\h31F0, \h31FF>>,
     <<\h3220, \h3229>>, <<\h3248, \h324F>>, <<\h3251, \h325F>>, <<\h3280, \h3289>>,
     <<\h32B1, \h32BF>>, <<\h3400, \h4DBF>>, <<\h4E00, \hA48C>>, <<\hA4D0, \hA4FD>>,
     <<\hA500, \hA60C>>, <<\hA610, \hA62B>>, <<\hA640, \hA66E>>, <<\hA67F, \hA69D>>,
     <<\hA6A0, \hA6EF>>, <<\hA717, \hA71F>>, <<\hA722, \hA788>>, <<\hA78B, \hA7CA>>,
     <<\hA7D0, \hA7D1>>, <<\hA7D3, \hA7D3>>, <<\hA7D5, \hA7D9>>, <<\hA7F2, \hA801>>,
     <<\hA803, \hA805>>, <<\hA807, \hA80A>>, <<\hA80C, \hA822>>, <<\hA830, \hA835>>,
     <<\hA840, \hA873>>, <<\hA882, \hA8B3>>, <<\hA8D0, \hA8D9>>, <<\hA8F2, \hA8F7>>,
     <<\hA8FB, \hA8FB>>, <<\hA8FD, \hA8FE>>, <<\hA900, \hA925>>, <<\hA930, \hA946>>,
     <<\hA960, \hA97C>>, <<\hA984, \hA9B2>>, <<\hA9CF, \hA9D9>>, <<\hA9E0, \hA9E4>>,
     <<\hA9E6, \hA9FE>>, <<\hAA00, \hAA28>>, <<\hAA40, \hAA42>>, <<\hAA44, \hAA4B>>,
     <<\hAA50, \hAA59>>, <<\hAA60, \hAA76>>, <<\hAA7A, \hAA7A>>, <<\hAA7E, \hAAAF>>,
     <<\hAAB1, \hAAB1>>, <<\hAAB5, \hAAB6>>, <<\hAAB9, \hAABD>>, <<\hAAC0, \hAAC0>>,
     <<\hAAC2, \hAAC2>>, <<\hAADB, \hAADD>>, <<\hAAE0, \hAAEA>>, <<\hAAF2, \hAAF4>>,
     <<\hAB01, \hAB06>>, <<\hAB09, \hAB0E>>, <<\hAB11, \hAB16>>, <<\hAB20, \hAB26>>,
     <<\hAB28, \hAB2E>>, <<\hAB30, \hAB5A>>, <<\hAB5C, \hAB69>>, <<\hAB70, \hABE2>>,
     <<\hABF0, \hABF9>>, <<\hAC00, \hD7A3>>, <<\hD7B0, \hD7C6>>, <<\hD7CB, \hD7FB>>,
     <<\hF900, \hFA6D>>, <<\hFA70, \hFAD9>>, <<\hFB00, \hFB06>>, <<\hFB13, \hFB17>>,
     <<\hFB1D, \hFB1D>>, <<\hFB1F, \hFB28>>, <<\hFB2A, \hFB36>>, <<\hFB38, \hFB3C>>,
     <<\hFB3E, \hFB3E>>, <<\hFB40, \hFB41>>, <<\hFB43, \hFB44>>, <<\hFB46, \hFBB1>>,
     <<\hFBD3, \hFD3D>>, <<\hFD50, \hFD8F>>, <<\hFD92, \hFDC7>>, <<\hFDF0, \hFDFB>>,
     <<\hFE70, \hFE74>>, <<\hFE76, \hFEFC>>, <<\hFF10, \hFF19>>, <<\hFF21, \hFF3A>>,
     <<\hFF41, \hFF5A>>, <<\hFF66, \hFFBE>>, <<\hFFC2, \hFFC7>>, <<\hFFCA, \hFFCF>>,
     <<\hFFD2, \hFFD7>>, <<\hFFDA, \hFFDC>>, <<\h10000, \h1000B>>, <<\h1000D, \h10026>>,
     <<\h10028, \h1003A>>, <<\h1003C, \h1003D>>, <<\h1003F, \h1004D>>, <<\h10050, \h1005D>>,
     <<\h10080, \h100FA>>, <<\h10107, \h10133>>, <<\h10140, \h10178>>, <<\h1018A, \h1018B>>,
     <<\h10280, \h1029C>>, <<\h102A0, \h102D0>>, <<\h102E1, \h102FB>>, <<\h10300, \h10323>>,
     <<\h1032D, \h1034A>>, <<\h10350, \h10375>>, <<\h10380, \h1039D>>, <<\h103A0, \h103C3>>,
     <<\h103C8, \h103CF>>, <<\h103D1, \h103D5>>, <<\h10400, \h1049D>>, <<\h104A0, \h104A9>>,
     <<\h104B0, \h104D3>>, <<\h104D8, \h104FB>>, <<\h10500, \h10527>>, <<\h10530, \h10563>>,
     <<\h10570, \h1057A>>, <<\h1057C, \h1058A>>, <<\h1058C, \h10592>>, <<\h10594, \h10595>>,
     <<\h10597, \h105A1>>, <<\h105A3, \h105B1>>, <<\h105B3, \h105B9>>, <<\h105BB, \h105BC>>,
     <<\h10600, \h10736>>, <<\h10740, \h10755>>, <<\h10760, \h10767>>, <<\h10780, \h10785>>,
     <<\h10787, \h107B0>>, <<\h107B2, \h107BA>>, <<\h10800, \h10805>>, <<\h10808, \h10808>>,
     <<\h1080A, \h10835>>, <<\h10837, \h10838>>, <<\h1083C, \h1083C>>, <<\h1083F, \h10855>>,
     <<\h10858, \h10876>>, <<\h10879, \h1089E>>, <<\h108A7, \h108AF>>, <<\h108E0, \h108F2>>,
     <<\h108F4, \h108F5>>, <<\h108FB, \h1091B>>, <<\h10920, \h10939>>, <<\h10980, \h109B7>>,
     <<\h109BC, \h109CF>>, <<\h109D2, \h10A00>>, <<\h10A10, \h10A13>>, <<\h10A15, \h10A17>>,
     <<\h10A19, \h10A35>>, <<\h10A40, \h10A48>>, <<\h10A60, \h10A7E>>, <<\h10A80, \h10A9F>>,
     <<\h10AC0, \h10AC7>>, <<\h10AC9, \h10AE4>>, <<\h10AEB, \h10AEF>>, <<\h10B00, \h10B35>>,
     <<\h10B40, \h10B55>>, <<\h10B58, \h10B72>>, <<\h10B78, \h10B91>>, <<\h10BA9, \h10BAF>>,
     <<\h10C00, \h10C48>>, <<\h10C80, \h10CB2>>, <<\h10CC0, \h10CF2>>, <<\h10CFA, \h10D23>>,
     <<\h10D30, \h10D39>>, <<\h10E60, \h10E7E>>, <<\h10E80, \h10EA9>>, <<\h10EB0, \h10EB1>>,
     <<\h10F00, \h10F27>>, <<\h10F30, \h10F45>>, <<\h10F51, \h10F54>>, <<\h10F70, \h10F81>>,
     <<\h10FB0, \h10FCB>>, <<\h10FE0, \h10FF6>>, <<\h11003, \h11037>>, <<\h11052, \h1106F>>,
     <<\h11071, \h11072>>, <<\h11075, \h11075>>, <<\h11083, \h110AF>>, <<\h110D0, \h110E8>>,
     <<\h110F0, \h110F9>>, <<\h11103, \h11126>>, <<\h11136, \h1113F>>, <<\h11144, \h11144>>,
     <<\h11147, \h11147>>, <<\h11150, \h11172>>, <<\h11176, \h11176>>, <<\h11183, \h111B2>>,
     <<\h111C1, \h111C4>>, <<\h111D0, \h111DA>>, <<\h111DC, \h111DC>>, <<\h111E1, \h111F4>>,
     <<\h11200, \h11211>>, <<\h11213, \h1122B>>, <<\h11280, \h11286>>, <<\h11288, \h11288>>,
     <<\h1128A, \h1128D>>, <<\h1128F, \h1129D>>, <<\h1129F, \h112A8>>, <<\h112B0, \h112DE>>,
     <<\h112F0, \h112F9>>, <<\h11305, \h1130C>>, <<\h1130F, \h11310>>, <<\h11313, \h11328>>,
     <<\h1132A, \h11330>>, <<\h11332, \h11333>>, <<\h11335, \h11339>>, <<\h1133D, \h1133D>>,
     <<\h11350, \h11350>>, <<\h1135D, \h11361>>, <<\h11400, \h11434>>, <<\h11447, \h1144A>>,
     <<\h11450, \h11459>>, <<\h1145F, \h11461>>, <<\h11480, \h114AF>>, <<\h114C4, \h114C5>>,
     <<\h114C7, \h114C7>>, <<\h114D0, \h114D9>>, <<\h11580, \h115AE>>, <<\h115D8, \h115DB>>,
     <<\h11600, \h1162F>>, <<\h11644, \h11644>>, <<\h11650, \h11659>>, <<\h11680, \h116AA>>,
     <<\h116B8, \h116B8>>, <<\h116C0, \h116C9>>, <<\h11700, \h1171A>>, <<\h11730, \h1173B>>,
     <<\h11740, \h11746>>, <<\h11800, \h1182B>>, <<\h118A0, \h118F2>>, <<\h118FF, \h11906>>,
     <<\h11909, \h11909>>, <<\h1190C, \h11913>>, <<\h11915, \h11916>>, <<\h11918, \h1192F>>,
     <<\h1193F, \h1193F>>, <<\h11941, \h11941>>, <<\h11950, \h11959>>, <<\h119A0, \h119A7>>,
     <<\h119AA, \h119D0>>, <<\h119E1, \h119E1>>, <<\h119E3, \h119E3>>, <<\h11A00, \h11A00>>,
     <<\h11A0B, \h11A32>>, <<\h11A3A, \h11A3A>>, <<\h11A50, \h11A50>>, <<\h11A5C, \h11A89>>,
     <<\h11A9D, \h11A9D>>, <<\h11AB0, \h11AF8>>, <<\h11C00, \h11C08>>, <<\h11C0A, \h11C2E>>,
     <<\h11C40, \h11C40>>, <<\h11C50, \h11C6C>>, <<\h11C72, \h11C8F>>, <<\h11D00, \h11D06>>,
     <<\h11D08, \h11D09>>, <<\h11D0B, \h11D30>>, <<\h11D46, \h11D46>>, <<\h11D50, \h11D59>>,
     <<\h11D60, \h11D65>>, <<\h11D67, \h11D68>>, <<\h11D6A, \h11D89>>, <<\h11D98, \h11D98>>,
     <<\h11DA0, \h11DA9>>, <<\h11EE0, \h11EF2>>, <<\h11FB0, \h11FB0>>, <<\h11FC0, \h11FD4>>,
     <<\h12000, \h12399>>, <<\h12400, \h1246E>>, <<\h12480, \h12543>>, <<\h12F90, \h12FF0>>,
     <<\h13000, \h1342E>>, <<\h14400, \h14646>>, <<\h16800, \h16A38>>, <<\h16A40, \h16A5E>>,
     <<\h16A60, \h16A69>>, <<\h16A70, \h16ABE>>, <<\h16AC0, \h16AC9>>, <<\h16AD0, \h16AED>>,
     <<\h16B00, \h16B2F>>, <<\h16B40, \h16B43>>, <<\h16B50, \h16B59>>, <<\h16B5B, \h16B61>>,
     <<\h16B63, \h16B77>>, <<\h16B7D, \h16B8F>>, <<\h16E40, \h16E96>>, <<\h16F00, \h16F4A>>,
     <<\h16F50, \h16F50>>, <<\h16F93, \h16F9F>>, <<\h16FE0, \h16FE1>>, <<\h16FE3, \h16FE3>>,
     <<\h17000, \h187F7>>, <<\h18800, \h18CD5>>, <<\h18D00, \h18D08>>, <<\h1AFF0, \h1AFF3>>,
     <<\h1AFF5, \h1AFFB>>, <<\h1AFFD, \h1AFFE>>, <<\h1B000, \h1B122>>, <<\h1B150, \h1B152>>,
     <<\h1B164, \h1B167>>, <<\h1B170, \h1B2FB>>, <<\h1BC00, \h1BC6A>>, <<\h1BC70, \h1BC7C>>,
     <<\h1BC80, \h1BC88>>, <<\h1BC90, \h1BC99>>, <<\h1D2E0, \h1D2F3>>, <<\h1D360, \h1D378>>,
     <<\h1D400, \h1D454>>, <<\h1D456, \h1D49C>>, <<\h1D49E, \h1D49F>>, <<\h1D4A2, \h1D4A2>>,
     <<\h1D4A5, \h1D4A6>>, <<\h1D4A9, \h1D4AC>>, <<\h1D4AE, \h1D4B9>>, <<\h1D4BB, \h1D4BB>>,
     <<\h1D4BD, \h1D4C3>>, <<\h1D4C5, \h1D505>>, <<\h1D507, \h1D50A>>, <<\h1D50D, \h1D514>>,
     <<\h1D516, \h1D51C>>, <<\h1D51E, \h1D539>>, <<\h1D53B, \h1D53E>>, <<\h1D540, \h1D544>>,
     <<\h1D546, \h1D546>>, <<\h1D54A, \h1D550>>, <<\h1D552, \h1D6A5>>, <<\h1D6A8, \h1D6C0>>,
     <<\h1D6C2, \h1D6DA>>, <<\h1D6DC, \h1D6FA>>, <<\h1D6FC, \h1D714>>, <<\h1D716, \h1D734>>,
     <<\h1D736, \h1D74E>>, <<\h1D750, \h1D76E>>, <<\h1D770, \h1D788>>, <<\h1D78A, \h1D7A8>>,
     <<\h1D7AA, \h1D7C2>>, <<\h1D7C4, \h1D7CB>>, <<\h1D7CE, \h1D7FF>>, <<\h1DF00, \h1DF1E>>,
     <<\h1E100, \h1E12C>>, <<\h1E137, \h1E13D>>, <<\h1E140, \h1E149>>, <<\h1E14E, \h1E14E>>,
     <<\h1E290, \h1E2AD>>, <<\h1E2C0, \h1E2EB>>, <<\h1E2F0, \h1E2F9>>, <<\h1E7E0, \h1E7E6>>,
     <<\h1E7E8, \h1E7EB>>, <<\h1E7ED, \h1E7EE>>, <<\h1E7F0, \h1E7FE>>, <<\h1E800, \h1E8C4>>,
     <<\h1E8C7, \h1E8CF>>, <<\h1E900, \h1E943>>, <<\h1E94B, \h1E94B>>, <<\h1E950, \h1E959>>,
     <<\h1EC71, \h1ECAB>>, <<\h1ECAD, \h1ECAF>>, <<\h1ECB1, \h1ECB4>>, <<\h1ED01, \h1ED2D>>,
     <<\h1ED2F, \h1ED3D>>, <<\h1EE00, \h1EE03>>, <<\h1EE05, \h1EE1F>>, <<\h1EE21, \h1EE22>>,
     <<\h1EE24, \h1EE24>>, <<\h1EE27, \h1EE27>>, <<\h1EE29, \h1EE32>>, <<\h1EE34, \h1EE37>>,
     <<\h1EE39, \h1EE39>>, <<\h1EE3B, \h1EE3B>>, <<\h1EE42, \h1EE42>>, <<\h1EE47, \h1EE47>>,
     <<\h1EE49, \h1EE49>>, <<\h1EE4B, \h1EE4B>>, <<\h1EE4D, \h1EE4F>>, <<\h1EE51, \h1EE52>>,
     <<\h1EE54, \h1EE54>>, <<\h1EE57, \h1EE57>>, <<\h1EE59, \h1EE59>>, <<\h1EE5B, \h1EE5B>>,
     <<\h1EE5D, \h1EE5D>>, <<\h1EE5F, \h1EE5F>>, <<\h1EE61, \h1EE62>>, <<\h1EE64, \h1EE64>>,
     <<\h1EE67, \h1EE6A>>, <<\h1EE6C, \h1EE72>>, <<\h1EE74, \h1EE77>>, <<\h1EE79, \h1EE7C>>,
     <<\h1EE7E, \h1EE7E>>, <<\h1EE80, \h1EE89>>, <<\h1EE8B, \h1EE9B>>, <<\h1EEA1, \h1EEA3>>,
     <<\h1EEA5, \h1EEA9>>, <<\h1EEAB, \h1EEBB>>, <<\h1F100, \h1F10C>>, <<\h1FBF0, \h1FBF9>>,
     <<\h20000, \h2A6DF>>, <<\h2A700, \h2B738>>, <<\h2B740, \h2B81D>>, <<\h2B820, \h2CEA1>>,
     <<\h2CEB0, \h2EBE0>>, <<\h2F800, \h2FA1D>>, <<\h30000, \h3134A>> >>

WideWord == Named(WideWordRanges)

\* The characters beyond U+00FF that str.lower() changes to one character
\* beyond U+00FF: <<first, last, step, offset>> stands for the characters
\* first, first + step, ... up to last, each changed to the one offset
\* further on.
WideLowerRuns ==
  << <<\h0100, \h012E, 2, 1>>, <<\h0132, \h0136, 2, 1>>, <<\h0139, \h0147, 2, 1>>,
     <<\h014A, \h0176, 2, 1>>, <<\h0179, \h017D, 2, 1>>, <<\h0181, \h0181, 1, 210>>,
     <<\h0182, \h0184, 2, 1>>, <<\h0186, \h0186, 1, 206>>, <<\h0187, \h0187, 1, 1>>,
     <<\h0189, \h018A, 1, 205>>, <<\h018B, \h018B, 1, 1>>, <<\h018E, \h018E, 1, 79>>,
     <<\h018F, \h018F, 1, 202>>, <<\h0190, \h0190, 1, 203>>, <<\h0191, \h0191, 1, 1>>,
     <<\h0193, \h0193, 1, 205>>, <<\h0194, \h0194, 1, 207>>, <<\h0196, \h0196, 1, 211>>,
     <<\h0197, \h0197, 1, 209>>, <<\h0198, \h0198, 1, 1>>, <<\h019C, \h019C, 1, 211>>,
     <<\h019D, \h019D, 1, 213>>, <<\h019F, \h019F, 1, 214>>, <<\h01A0, \h01A4, 2, 1>>,
     <<\h01A6, \h01A6, 1, 218>>, <<\h01A7, \h01A7, 1, 1>>, <<\h01A9, \h01A9, 1, 218>>,
     <<\h01AC, \h01AC, 1, 1>>, <<\h01AE, \h01AE, 1, 218>>, <<\h01AF, \h01AF, 1, 1>>,
     <<\h01B1, \h01B2, 1, 217>>, <<\h01B3, \h01B5, 2, 1>>, <<\h01B7, \h01B7, 1, 219>>,
     <<\h01B8, \h01B8, 1, 1>>, <<\h01BC, \h01BC, 1, 1>>, <<\h01C4, \h01C4, 1, 2>>,
     <<\h01C5, \h01C5, 1, 1>>, <<\h01C7, \h01C7, 1, 2>>, <<\h01C8, \h01C8, 1, 1>>,
     <<\h01CA, \h01CA, 1, 2>>, <<\h01CB, \h01DB, 2, 1>>, <<\h01DE, \h01EE, 2, 1>>,
     <<\h01F1, \h01F1, 1, 2>>, <<\h01F2, \h01F4, 2, 1>>, <<\h01F6, \h01F6, 1, 0 - 97>>,
     <<\h01F7, \h01F7, 1, 0 - 56>>, <<\h01F8, \h021E, 2, 1>>, <<\h0220, \h0220, 1, 0 - 130>>,
     <<\h0222, \h0232, 2, 1>>, <<\h023A, \h023A, 1, 10795>>, <<\h023B, \h023B, 1, 1>>,
     <<\h023D, \h023D, 1, 0 - 163>>, <<\h023E, \h023E, 1, 10792>>, <<\h0241, \h0241, 1, 1>>,
     <<\h0243, \h0243, 1, 0 - 195>>, <<\h0244, \h0244, 1, 69>>, <<\h0245, \h0245, 1, 71>>,
     <<\h0246, \h024E, 2, 1>>, <<\h0370, \h0372, 2, 1>>, <<\h0376, \h0376, 1, 1>>,
     <<\h037F, \h037F, 1, 116>>, <<\h0386, \h0386, 1, 38>>, <<\h0388, \h038A, 1, 37>>,
     <<\h038C, \h038C, 1, 64>>, <<\h038E, \h038F, 1, 63>>, <<\h0391, \h03A1, 1, 32>>,
     <<\h03A3, \h03AB, 1, 32>>, <<\h03CF, \h03CF, 1, 8>>, <<\h03D8, \h03EE, 2, 1>>,
     <<\h03F4, \h03F4, 1, 0 - 60>>, <<\h03F7, \h03F7, 1, 1>>, <<\h03F9, \h03F9, 1, 0 - 7>>,
     <<\h03FA, \h03FA, 1, 1>>, <<\h03FD, \h03FF, 1, 0 - 130>>, <<\h0400, \h040F, 1, 80>>,
     <<\h0410, \h042F, 1, 32>>, <<\h0460, \h0480, 2, 1>>, <<\h048A, \h04BE, 2, 1>>,
     <<\h04C0, \h04C0, 1, 15>>, <<\h04C1, \h04CD, 2, 1>>, <<\h04D0, \h052E, 2, 1>>,
     <<\h0531, \h0556, 1, 48>>, <<\h10A0, \h10C5, 1, 7264>>, <<\h10C7, \h10C7, 1, 7264>>,
     <<\h10CD, \h10CD, 1, 7264>>, <<\h13A0, \h13EF, 1, 38864>>, <<\h13F0, \h13F5, 1, 8>>,
     <<\h1C90, \h1CBA, 1, 0 - 3008>>, <<\h1CBD, \h1CBF, 1, 0 - 3008>>, <<\h1E00, \h1E94, 2, 1>>,
     <<\h1EA0, \h1EFE, 2, 1>>, <<\h1F08, \h1F0F, 1, 0 - 8>>, <<\h1F18, \h1F1D, 1, 0 - 8>>,
     <<\h1F28, \h1F2F, 1, 0 - 8>>, <<\h1F38, \h1F3F, 1, 0 - 8>>, <<\h1F48, \h1F4D, 1, 0 - 8>>,
     <<\h1F59, \h1F5F, 2, 0 - 8>>, <<\h1F68, \h1F6F, 1, 0 - 8>>, <<\h1F88, \h1F8F, 1, 0 - 8>>,
     <<\h1F98, \h1F9F, 1, 0 - 8>>, <<\h1FA8, \h1FAF, 1, 0 - 8>>, <<\h1FB8, \h1FB9, 1, 0 - 8>>,
     <<\h1FBA, \h1FBB, 1, 0 - 74>>, <<\h1FBC, \h1FBC, 1, 0 - 9>>, <<\h1FC8, \h1FCB, 1, 0 - 86>>,
     <<\h1FCC, \h1FCC, 1, 0 - 9>>, <<\h1FD8, \h1FD9, 1, 0 - 8>>, <<\h1FDA, \h1FDB, 1, 0 - 100>>,
     <<\h1FE8, \h1FE9, 1, 0 - 8>>, <<\h1FEA, \h1FEB, 1, 0 - 112>>, <<\h1FEC, \h1FEC, 1, 0 - 7>>,
     <<\h1FF8, \h1FF9, 1, 0 - 128>>, <<\h1FFA, \h1FFB, 1, 0 - 126>>, <<\h1FFC, \h1FFC, 1, 0 - 9>>,
     <<\h2126, \h2126, 1, 0 - 7517>>, <<\h2132, \h2132, 1, 28>>, <<\h2160, \h216F, 1, 16>>,
     <<\h2183, \h2183, 1, 1>>, <<\h24B6, \h24CF, 1, 26>>, <<\h2C00, \h2C2F, 1, 48>>,
     <<\h2C60, \h2C60, 1, 1>>, <<\h2C62, \h2C62, 1, 0 - 10743>>, <<\h2C63, \h2C63, 1, 0 - 3814>>,
     <<\h2C64, \h2C64, 1, 0 - 10727>>, <<\h2C67, \h2C6B, 2, 1>>, <<\h2C6D, \h2C6D, 1, 0 - 10780>>,
     <<\h2C6E, \h2C6E, 1, 0 - 10749>>, <<\h2C6F, \h2C6F, 1, 0 - 10783>>, <<\h2C70, \h2C70, 1, 0 - 10782>>,
     <<\h2C72, \h2C72, 1, 1>>, <<\h2C75, \h2C75, 1, 1>>, <<\h2C7E, \h2C7F, 1, 0 - 10815>>,
     <<\h2C80, \h2CE2, 2, 1>>, <<\h2CEB, \h2CED, 2, 1>>, <<\h2CF2, \h2CF2, 1, 1>>,
     <<\hA640, \hA66C, 2, 1>>, <<\hA680, \hA69A, 2, 1>>, <<\hA722, \hA72E, 2, 1>>,
     <<\hA732, \hA76E, 2, 1>>, <<\hA779, \hA77B, 2, 1>>, <<\hA77D, \hA77D, 1, 0 - 35332>>,
     <<\hA77E, \hA786, 2, 1>>, <<\hA78B, \hA78B, 1, 1>>, <<\hA78D, \hA78D, 1, 0 - 42280>>,
     <<\hA790, \hA792, 2, 1>>, <<\hA796, \hA7A8, 2, 1>>, <<\hA7AA, \hA7AA, 1, 0 - 42308>>,
     <<\hA7AB, \hA7AB, 1, 0 - 42319>>, <<\hA7AC, \hA7AC, 1, 0 - 42315>>, <<\hA7AD, \hA7AD, 1, 0 - 42305>>,
     <<\hA7AE, \hA7AE, 1, 0 - 42308>>, <<\hA7B0, \hA7B0, 1, 0 - 42258>>, <<\hA7B1, \hA7B1, 1, 0 - 42282>>,
     <<\hA7B2, \hA7B2, 1, 0 - 42261>>, <<\hA7B3, \hA7B3, 1, 928>>, <<\hA7B4, \hA7C2, 2, 1>>,
     <<\hA7C4, \hA7C4, 1, 0 - 48>>, <<\hA7C5, \hA7C5, 1, 0 - 42307>>, <<\hA7C6, \hA7C6, 1, 0 - 35384>>,
     <<\hA7C7, \hA7C9, 2, 1>>, <<\hA7D0, \hA7D0, 1, 1>>, <<\hA7D6, \hA7D8, 2, 1>>,
     <<\hA7F5, \hA7F5, 1, 1>>, <<\hFF21, \hFF3A, 1, 32>>, <<\h10400, \h10427, 1, 40>>,
     <<\h104B0, \h104D3, 1, 40>>, <<\h10570, \h1057A, 1, 39>>, <<\h1057C, \h1058A, 1, 39>>,
     <<\h1058C, \h10592, 1, 39>>, <<\h10594, \h10595, 1, 39>>, <<\h10C80, \h10CB2, 1, 64>>,
     <<\h118A0, \h118BF, 1, 32>>, <<\h16E40, \h16E5F, 1, 32>>, <<\h1E900, \h1E921, 1, 34>> >>

\* the pairs <<character, what str.lower() changes it to>> of the run r
RunPairs(r) ==
  { <<CodePointName(n), <<CodePointName(n + r[4])>>>> :
      n \in { k \in r[1]..r[2] : (k - r[1]) % r[3] = 0 } }

\* the pairs of all the runs
AllRunPairs(runs) == UNION { RunPairs(runs[i]) : i \in DOMAIN runs }

WideLowerPairs == AllRunPairs(WideLowerRuns)

\* the characters beyond U+00FF that str.lower() changes to a character up
\* to U+00FF, or to two characters
SpecialLowerPairs ==
  { <<"U+0130", <<"i", "U+0307">>>>, <<"U+0178", <<"ÿ">>>>, <<"U+1E9E", <<"ß">>>>,
    <<"U+212A", <<"k">>>>, <<"U+212B", <<"å">>>> }

\* the function that the pairs <<argument, value>> make
FunctionOf(pairs) ==
  [c \in { p[1] : p \in pairs } |-> (CHOOSE p \in pairs : p[1] = c)[2]]

\* c.lower() for every character c beyond U+00FF that it changes
WideLower == FunctionOf(WideLowerPairs \cup SpecialLowerPairs)

\* The capital sigma is lowered by its place in the word: to the final
\* sigma after a cased letter when no cased letter follows, where the
\* case-ignorable characters between are passed over.
CapitalSigma == "U+03A3"
FinalSigma == "U+03C2"

\* the case-ignorable characters beyond U+00FF
WideCaseIgnorableRanges ==
  << <<\h02B0, \h036F>>, <<\h0374, \h0375>>, <<\h037A, \h037A>>, <<\h0384, \h0385>>,
     <<\h0387, \h0387>>, <<\h0483, \h0489>>, <<\h0559, \h0559>>, <<\h055F, \h055F>>,
     <<\h0591, \h05BD>>, <<\h05BF, \h05BF>>, <<\h05C1, \h05C2>>, <<\h05C4, \h05C5>>,
     <<\h05C7, \h05C7>>, <<\h05F4, \h05F4>>, <<\h0600, \h0605>>, <<\h0610, \h061A>>,
     <<\h061C, \h061C>>, <<\h0640, \h0640>>, <<\h064B, \h065F>>, <<\h0670, \h0670>>,
     <<\h06D6, \h06DD>>, <<\h06DF, \h06E8>>, <<\h06EA, \h06ED>>, <<\h070F, \h070F>>,
     <<\h0711, \h0711>>, <<\h0730, \h074A>>, <<\h07A6, \h07B0>>, <<\h07EB, \h07F5>>,
     <<\h07FA, \h07FA>>, <<\h07FD, \h07FD>>, <<\h0816, \h082D>>, <<\h0859, \h085B>>,
     <<\h0888, \h0888>>, <<\h0890, \h0891>>, <<\h0898, \h089F>>, <<\h08C9, \h0902>>,
     <<\h093A, \h093A>>, <<\h093C, \h093C>>, <<\h0941, \h0948>>, <<\h094D, \h094D>>,
     <<\h0951, \h0957>>, <<\h0962, \h0963>>, <<\h0971, \h0971>>, <<\h0981, \h0981>>,
     <<\h09BC, \h09BC>>, <<\h09C1, \h09C4>>, <<\h09CD, \h09CD>>, <<\h09E2, \h09E3>>,
     <<\h09FE, \h09FE>>, <<\h0A01, \h0A02>>, <<\h0A3C, \h0A3C>>, <<\h0A41, \h0A42>>,
     <<\h0A47, \h0A48>>, <<\h0A4B, \h0A4D>>, <<\h0A51, \h0A51>>, <<\h0A70, \h0A71>>,
     <<\h0A75, \h0A75>>, <<\h0A81, \h0A82>>, <<\h0ABC, \h0ABC>>, <<\h0AC1, \h0AC5>>,
     <<\h0AC7, \h0AC8>>, <<\h0ACD, \h0ACD>>, <<\h0AE2, \h0AE3>>, <<\h0AFA, \h0AFF>>,
     <<\h0B01, \h0B01>>, <<\h0B3C, \h0B3C>>, <<\h0B3F, \h0B3F>>, <<\h0B41, \h0B44>>,
     <<\h0B4D, \h0B4D>>, <<\h0B55, \h0B56>>, <<\h0B62, \h0B63>>, <<\h0B82, \h0B82>>,
     <<\h0BC0, \h0BC0>>, <<\h0BCD, \h0BCD>>, <<\h0C00, \h0C00>>, <<\h0C04, \h0C04>>,
     <<\h0C3C, \h0C3C>>, <<\h0C3E, \h0C40>>, <<\h0C46, \h0C48>>, <<\h0C4A, \h0C4D>>,
     <<\h0C55, \h0C56>>, <<\h0C62, \h0C63>>, <<\h0C81, \h0C81>>, <<\h0CBC, \h0CBC>>,
     <<\h0CBF, \h0CBF>>, <<\h0CC6, \h0CC6>>, <<\h0CCC, \h0CCD>>, <<\h0CE2, \h0CE3>>,
     <<\h0D00, \h0D01>>, <<\h0D3B, \h0D3C>>, <<\h0D41, \h0D44>>, <<\h0D4D, \h0D4D>>,
     <<\h0D62, \h0D63>>, <<\h0D81, \h0D81>>, <<\h0DCA, \h0DCA>>, <<\h0DD2, \h0DD4>>,
     <<\h0DD6, \h0DD6>>, <<\h0E31, \h0E31>>, <<\h0E34, \h0E3A>>, <<\h0E46, \h0E4E>>,
     <<\h0EB1, \h0EB1>>, <<\h0EB4, \h0EBC>>, <<\h0EC6, \h0EC6>>, <<\h0EC8, \h0ECD>>,
     <<\h0F18, \h0F19>>, <<\h0F35, \h0F35>>, <<\h0F37, \h0F37>>, <<\h0F39, \h0F39>>,
     <<\h0F71, \h0F7E>>, <<\h0F80, \h0F84>>, <<\h0F86, \h0F87>>, <<\h0F8D, \h0F97>>,
     <<\h0F99, \h0FBC>>, <<\h0FC6, \h0FC6>>, <<\h102D, \h1030>>, <<\h1032, \h1037>>,
     <<\h1039, \h103A>>, <<\h103D, \h103E>>, <<\h1058, \h1059>>, <<\h105E, \h1060>>,
     <<\h1071, \h1074>>, <<\h1082, \h1082>>, <<\h1085, \h1086>>, <<\h108D, \h108D>>,
     <<\h109D, \h109D>>, <<\h10FC, \h10FC>>, <<\h135D, \h135F>>, <<\h1712, \h1714>>,
     <<\h1732, \h1733>>, <<\h1752, \h1753>>, <<\h1772, \h1773>>, <<\h17B4, \h17B5>>,
     <<\h17B7, \h17BD>>, <<\h17C6, \h17C6>>, <<\h17C9, \h17D3>>, <<\h17D7, \h17D7>>,
     <<\h17DD, \h17DD>>, <<\h180B, \h180F>>, <<\h1843, \h1843>>, <<\h1885, \h1886>>,
     <<\h18A9, \h18A9>>, <<\h1920, \h1922>>, <<\h1927, \h1928>>, <<\h1932, \h1932>>,
     <<\h1939, \h193B>>, <<\h1A17, \h1A18>>, <<\h1A1B, \h1A1B>>, <<\h1A56, \h1A56>>,
     <<\h1A58, \h1A5E>>, <<\h1A60, \h1A60>>, <<\h1A62, \h1A62>>, <<\h1A65, \h1A6C>>,
     <<\h1A73, \h1A7C>>, <<\h1A7F, \h1A7F>>, <<\h1AA7, \h1AA7>>, <<\h1AB0, \h1ACE>>,
     <<\h1B00, \h1B03>>, <<\h1B34, \h1B34>>, <<\h1B36, \h1B3A>>, <<\h1B3C, \h1B3C>>,
     <<\h1B42, \h1B42>>, <<\h1B6B, \h1B73>>, <<\h1B80, \h1B81>>, <<\h1BA2, \h1BA5>>,
     <<\h1BA8, \h1BA9>>, <<\h1BAB, \h1BAD>>, <<\h1BE6, \h1BE6>>, <<\h1BE8, \h1BE9>>,
     <<\h1BED, \h1BED>>, <<\h1BEF, \h1BF1>>, <<\h1C2C, \h1C33>>, <<\h1C36, \h1C37>>,
     <<\h1C78, \h1C7D>>, <<\h1CD0, \h1CD2>>, <<\h1CD4, \h1CE0>>, <<\h1CE2, \h1CE8>>,
     <<\h1CED, \h1CED>>, <<\h1CF4, \h1CF4>>, <<\h1CF8, \h1CF9>>, <<\h1D2C, \h1D6A>>,
     <<\h1D78, \h1D78>>, <<\h1D9B, \h1DFF>>, <<\h1FBD, \h1FBD>>, <<\h1FBF, \h1FC1>>,
     <<\h1FCD, \h1FCF>>, <<\h1FDD, \h1FDF>>, <<\h1FED, \h1FEF>>, <<\h1FFD, \h1FFE>>,
     <<\h200B, \h200F>>, <<\h2018, \h2019>>, <<\h2024, \h2024>>, <<\h2027, \h2027>>,
     <<\h202A, \h202E>>, <<\h2060, \h2064>>, <<\h2066, \h206F>>, <<\h2071, \h2071>>,
     <<\h207F, \h207F>>, <<\h2090, \h209C>>, <<\h20D0, \h20F0>>, <<\h2C7C, \h2C7D>>,
     <<\h2CEF, \h2CF1>>, <<\h2D6F, \h2D6F>>, <<\h2D7F, \h2D7F>>, <<\h2DE0, \h2DFF>>,
     <<\h2E2F, \h2E2F>>, <<\h3005, \h3005>>, <<\h302A, \h302D>>, <<\h3031, \h3035>>,
     <<\h303B, \h303B>>, <<\h3099, \h309E>>, <<\h30FC, \h30FE>>, <<\hA015, \hA015>>,
     <<\hA4F8, \hA4FD>>, <<\hA60C, \hA60C>>, <<\hA66F, \hA672>>, <<\hA674, \hA67D>>,
     <<\hA67F, \hA67F>>, <<\hA69C, \hA69F>>, <<\hA6F0, \hA6F1>>, <<\hA700, \hA721>>,
     <<\hA770, \hA770>>, <<\hA788, \hA78A>>, <<\hA7F2, \hA7F4>>, <<\hA7F8, \hA7F9>>,
     <<\hA802, \hA802>>, <<\hA806, \hA806>>, <<\hA80B, \hA80B>>, <<\hA825, \hA826>>,
     <<\hA82C, \hA82C>>, <<\hA8C4, \hA8C5>>, <<\hA8E0, \hA8F1>>, <<\hA8FF, \hA8FF>>,
     <<\hA926, \hA92D>>, <<\hA947, \hA951>>, <<\hA980, \hA982>>, <<\hA9B3, \hA9B3>>,
     <<\hA9B6, \hA9B9>>, <<\hA9BC, \hA9BD>>, <<\hA9CF, \hA9CF>>, <<\hA9E5, \hA9E6>>,
     <<\hAA29, \hAA2E>>, <<\hAA31, \hAA32>>, <<\hAA35, \hAA36>>, <<\hAA43, \hAA43>>,
     <<\hAA4C, \hAA4C>>, <<\hAA70, \hAA70>>, <<\hAA7C, \hAA7C>>, <<\hAAB0, \hAAB0>>,
     <<\hAAB2, \hAAB4>>, <<\hAAB7, \hAAB8>>, <<\hAABE, \hAABF>>, <<\hAAC1, \hAAC1>>,
     <<\hAADD, \hAADD>>, <<\hAAEC, \hAAED>>, <<\hAAF3, \hAAF4>>, <<\hAAF6, \hAAF6>>,
     <<\hAB5B, \hAB5F>>, <<\hAB69, \hAB6B>>, <<\hABE5, \hABE5>>, <<\hABE8, \hABE8>>,
     <<\hABED, \hABED>>, <<\hFB1E, \hFB1E>>, <<\hFBB2, \hFBC2>>, <<\hFE00, \hFE0F>>,
     <<\hFE13, \hFE13>>, <<\hFE20, \hFE2F>>, <<\hFE52, \hFE52>>, <<\hFE55, \hFE55>>,
     <<\hFEFF, \hFEFF>>, <<\hFF07, \hFF07>>, <<\hFF0E, \hFF0E>>, <<\hFF1A, \hFF1A>>,
     <<\hFF3E, \hFF3E>>, <<\hFF40, \hFF40>>, <<\hFF70, \hFF70>>, <<\hFF9E, \hFF9F>>,
     <<\hFFE3, \hFFE3>>, <<\hFFF9, \hFFFB>>, <<\h101FD, \h101FD>>, <<\h102E0, \h102E0>>,
     <<\h10376, \h1037A>>, <<\h10780, \h10785>>, <<\h10787, \h107B0>>, <<\h107B2, \h107BA>>,
     <<\h10A01, \h10A03>>, <<\h10A05, \h10A06>>, <<\h10A0C, \h10A0F>>, <<\h10A38, \h10A3A>>,
     <<\h10A3F, \h10A3F>>, <<\h10AE5, \h10AE6>>, <<\h10D24, \h10D27>>, <<\h10EAB, \h10EAC>>,
     <<\h10F46, \h10F50>>, <<\h10F82, \h10F85>>, <<\h11001, \h11001>>, <<\h11038, \h11046>>,
     <<\h11070, \h11070>>, <<\h11073, \h11074>>, <<\h1107F, \h11081>>, <<\h110B3, \h110B6>>,
     <<\h110B9, \h110BA>>, <<\h110BD, \h110BD>>, <<\h110C2, \h110C2>>, <<\h110CD, \h110CD>>,
     <<\h11100, \h11102>>, <<\h11127, \h1112B>>, <<\h1112D, \h11134>>, <<\h11173, \h11173>>,
     <<\h11180, \h11181>>, <<\h111B6, \h111BE>>, <<\h111C9, \h111CC>>, <<\h111CF, \h111CF>>,
     <<\h1122F, \h11231>>, <<\h11234, \h11234>>, <<\h11236, \h11237>>, <<\h1123E, \h1123E>>,
     <<\h112DF, \h112DF>>, <<\h112E3, \h112EA>>, <<\h11300, \h11301>>, <<\h1133B, \h1133C>>,
     <<\h11340, \h11340>>, <<\h11366, \h1136C>>, <<\h11370, \h11374>>, <<\h11438, \h1143F>>,
     <<\h11442, \h11444>>, <<\h11446, \h11446>>, <<\h1145E, \h1145E>>, <<\h114B3, \h114B8>>,
     <<\h114BA, \h114BA>>, <<\h114BF, \h114C0>>, <<\h114C2, \h114C3>>, <<\h115B2, \h115B5>>,
     <<\h115BC, \h115BD>>, <<\h115BF, \h115C0>>, <<\h115DC, \h115DD>>, <<\h11633, \h1163A>>,
     <<\h1163D, \h1163D>>, <<\h1163F, \h11640>>, <<\h116AB, \h116AB>>, <<\h116AD, \h116AD>>,
     <<\h116B0, \h116B5>>, <<\h116B7, \h116B7>>, <<\h1171D, \h1171F>>, <<\h11722, \h11725>>,
     <<\h11727, \h1172B>>, <<\h1182F, \h11837>>, <<\h11839, \h1183A>>, <<\h1193B, \h1193C>>,
     <<\h1193E, \h1193E>>, <<\h11943, \h11943>>, <<\h119D4, \h119D7>>, <<\h119DA, \h119DB>>,
     <<\h119E0, \h119E0>>, <<\h11A01, \h11A0A>>, <<\h11A33, \h11A38>>, <<\h11A3B, \h11A3E>>,
     <<\h11A47, \h11A47>>, <<\h11A51, \h11A56>>, <<\h11A59, \h11A5B>>, <<\h11A8A, \h11A96>>,
     <<\h11A98, \h11A99>>, <<\h11C30, \h11C36>>, <<\h11C38, \h11C3D>>, <<\h11C3F, \h11C3F>>,
     <<\h11C92, \h11CA7>>, <<\h11CAA, \h11CB0>>, <<\h11CB2, \h11CB3>>, <<\h11CB5, \h11CB6>>,
     <<\h11D31, \h11D36>>, <<\h11D3A, \h11D3A>>, <<\h11D3C, \h11D3D>>, <<\h11D3F, \h11D45>>,
     <<\h11D47, \h11D47>>, <<\h11D90, \h11D91>>, <<\h11D95, \h11D95>>, <<\h11D97, \h11D97>>,
     <<\h11EF3, \h11EF4>>, <<\h13430, \h13438>>, <<\h16AF0, \h16AF4>>, <<\h16B30, \h16B36>>,
     <<\h16B40, \h16B43>>, <<\h16F4F, \h16F4F>>, <<\h16F8F, \h16F9F>>, <<\h16FE0, \h16FE1>>,
     <<\h16FE3, \h16FE4>>, <<\h1AFF0, \h1AFF3>>, <<\h1AFF5, \h1AFFB>>, <<\h1AFFD, \h1AFFE>>,
     <<\h1BC9D, \h1BC9E>>, <<\h1BCA0, \h1BCA3>>, <<\h1CF00, \h1CF2D>>, <<\h1CF30, \h1CF46>>,
     <<\h1D167, \h1D169>>, <<\h1D173, \h1D182>>, <<\h1D185, \h1D18B>>, <<\h1D1AA, \h1D1AD>>,
     <<\h1D242, \h1D244>>, <<\h1DA00, \h1DA36>>, <<\h1DA3B, \h1DA6C>>, <<\h1DA75, \h1DA75>>,
     <<\h1DA84, \h1DA84>>, <<\h1DA9B, \h1DA9F>>, <<\h1DAA1, \h1DAAF>>, <<\h1E000, \h1E006>>,
     <<\h1E008, \h1E018>>, <<\h1E01B, \h1E021>>, <<\h1E023, \h1E024>>, <<\h1E026, \h1E02A>>,
     <<\h1E130, \h1E13D>>, <<\h1E2AE, \h1E2AE>>, <<\h1E2EC, \h1E2EF>>, <<\h1E8D0, \h1E8D6>>,
     <<\h1E944, \h1E94B>>, <<\h1F3FB, \h1F3FF>>, <<\hE0001, \hE0001>>, <<\hE0020, \hE007F>>,
     <<\hE0100, \hE01EF>> >>

CaseIgnorable ==
  {"'", ".", ":", "^", "U+0060", "¨", "­", "¯", "´", "·", "¸"}
    \cup Named(WideCaseIgnorableRanges)

\* the cased characters beyond U+00FF that are not case-ignorable
WideCasedRanges ==
  << <<\h0100, \h01BA>>, <<\h01BC, \h01BF>>, <<\h01C4, \h0293>>, <<\h0295, \h02AF>>,
     <<\h0370, \h0373>>, <<\h0376, \h0377>>, <<\h037B, \h037D>>, <<\h037F, \h037F>>,
     <<\h0386, \h0386>>, <<\h0388, \h038A>>, <<\h038C, \h038C>>, <<\h038E, \h03A1>>,
     <<\h03A3, \h03F5>>, <<\h03F7, \h0481>>, <<\h048A, \h052F>>, <<\h0531, \h0556>>,
     <<\h0560, \h0588>>, <<\h10A0, \h10C5>>, <<\h10C7, \h10C7>>, <<\h10CD, \h10CD>>,
     <<\h10D0, \h10FA>>, <<\h10FD, \h10FF>>, <<\h13A0, \h13F5>>, <<\h13F8, \h13FD>>,
     <<\h1C80, \h1C88>>, <<\h1C90, \h1CBA>>, <<\h1CBD, \h1CBF>>, <<\h1D00, \h1D2B>>,
     <<\h1D6B, \h1D77>>, <<\h1D79, \h1D9A>>, <<\h1E00, \h1F15>>, <<\h1F18, \h1F1D>>,
     <<\h1F20, \h1F45>>, <<\h1F48, \h1F4D>>, <<\h1F50, \h1F57>>, <<\h1F59, \h1F59>>,
     <<\h1F5B, \h1F5B>>, <<\h1F5D, \h1F5D>>, <<\h1F5F, \h1F7D>>, <<\h1F80, \h1FB4>>,
     <<\h1FB6, \h1FBC>>, <<\h1FBE, \h1FBE>>, <<\h1FC2, \h1FC4>>, <<\h1FC6, \h1FCC>>,
     <<\h1FD0, \h1FD3>>, <<\h1FD6, \h1FDB>>, <<\h1FE0, \h1FEC>>, <<\h1FF2, \h1FF4>>,
     <<\h1FF6, \h1FFC>>, <<\h2102, \h2102>>, <<\h2107, \h2107>>, <<\h210A, \h2113>>,
     <<\h2115, \h2115>>, <<\h2119, \h211D>>, <<\h2124, \h2124>>, <<\h2126, \h2126>>,
     <<\h2128, \h2128>>, <<\h212A, \h212D>>, <<\h212F, \h2134>>, <<\h2139, \h2139>>,
     <<\h213C, \h213F>>, <<\h2145, \h2149>>, <<\h214E, \h214E>>, <<\h2160, \h217F>>,
     <<\h2183, \h2184>>, <<\h24B6, \h24E9>>, <<\h2C00, \h2C7B>>, <<\h2C7E, \h2CE4>>,
     <<\h2CEB, \h2CEE>>, <<\h2CF2, \h2CF3>>, <<\h2D00, \h2D25>>, <<\h2D27, \h2D27>>,
     <<\h2D2D, \h2D2D>>, <<\hA640, \hA66D>>, <<\hA680, \hA69B>>, <<\hA722, \hA76F>>,
     <<\hA771, \hA787>>, <<\hA78B, \hA78E>>, <<\hA790, \hA7CA>>, <<\hA7D0, \hA7D1>>,
     <<\hA7D3, \hA7D3>>, <<\hA7D5, \hA7D9>>, <<\hA7F5, \hA7F6>>, <<\hA7FA, \hA7FA>>,
     <<\hAB30, \hAB5A>>, <<\hAB60, \hAB68>>, <<\hAB70, \hABBF>>, <<\hFB00, \hFB06>>,
     <<\hFB13, \hFB17>>, <<\hFF21, \hFF3A>>, <<\hFF41, \hFF5A>>, <<\h10400, \h1044F>>,
     <<\h104B0, \h104D3>>, <<\h104D8, \h104FB>>, <<\h10570, \h1057A>>, <<\h1057C, \h1058A>>,
     <<\h1058C, \h10592>>, <<\h10594, \h10595>>, <<\h10597, \h105A1>>, <<\h105A3, \h105B1>>,
     <<\h105B3, \h105B9>>, <<\h105BB, \h105BC>>, <<\h10C80, \h10CB2>>, <<\h10CC0, \h10CF2>>,
     <<\h118A0, \h118DF>>, <<\h16E40, \h16E7F>>, <<\h1D400, \h1D454>>, <<\h1D456, \h1D49C>>,
     <<\h1D49E, \h1D49F>>, <<\h1D4A2, \h1D4A2>>, <<\h1D4A5, \h1D4A6>>, <<\h1D4A9, \h1D4AC>>,
     <<\h1D4AE, \h1D4B9>>, <<\h1D4BB, \h1D4BB>>, <<\h1D4BD, \h1D4C3>>, <<\h1D4C5, \h1D505>>,
     <<\h1D507, \h1D50A>>, <<\h1D50D, \h1D514>>, <<\h1D516, \h1D51C>>, <<\h1D51E, \h1D539>>,
     <<\h1D53B, \h1D53E>>, <<\h1D540, \h1D544>>, <<\h1D546, \h1D546>>, <<\h1D54A, \h1D550>>,
     <<\h1D552, \h1D6A5>>, <<\h1D6A8, \h1D6C0>>, <<\h1D6C2, \h1D6DA>>, <<\h1D6DC, \h1D6FA>>,
     <<\h1D6FC, \h1D714>>, <<\h1D716, \h1D734>>, <<\h1D736, \h1D74E>>, <<\h1D750, \h1D76E>>,
     <<\h1D770, \h1D788>>, <<\h1D78A, \h1D7A8>>, <<\h1D7AA, \h1D7C2>>, <<\h1D7C4, \h1D7CB>>,
     <<\h1DF00, \h1DF09>>, <<\h1DF0B, \h1DF1E>>, <<\h1E900, \h1E943>>, <<\h1F130, \h1F149>>,
     <<\h1F150, \h1F169>>, <<\h1F170, \h1F189>> >>

Cased ==
  Range(UpperLetters) \cup Range(LowerLetters) \cup UnchangedLetters
    \cup Named(WideCasedRanges)

\* The white space of str.strip(), str.isspace() and \s.  Up to U+00FF:
\* tab, line feed, U+000B, form feed, carriage return, U+001C to U+001F,
\* space, U+0085 and U+00A0 (no-break space).  str.splitlines() splits at
\* all of these but the tab, U+001F, the space, U+00A0 and those from U+1680
\* to U+205F and U+3000, which alone can stand inside a line.
WhiteSpace ==
  {"\t", "\n", "", "\f", "\r", "", "", "", "", " ", "", " ",
    "U+1680", "U+2000", "U+2001", "U+2002", "U+2003", "U+2004", "U+2005",
    "U+2006", "U+2007", "U+2008", "U+2009", "U+200A", "U+2028", "U+2029",
    "U+202F", "U+205F", "U+3000"}

\* c.lower(): str.lower() on the one character c; "U+0130" gives two
LowerIn(table, c) == IF c \in DOMAIN table THEN table[c] ELSE <<c>>

LowerChar(c) ==
  IF \E i \in DOMAIN UpperLetters : UpperLetters[i] = c
  THEN <<LowerLetters[CHOOSE i \in DOMAIN UpperLetters : UpperLetters[i] = c]>>
  ELSE LowerIn(WideLower, c)

\* whether the first character that is not case-ignorable, from s[j] on in
\* the direction step (-1: backwards, 1: forwards), is a cased one
RECURSIVE CasedToward(_, _, _)
CasedToward(s, j, step) ==
  IF j < 1 \/ j > Len(s) THEN FALSE
  ELSE IF s[j] \in CaseIgnorable THEN CasedToward(s, j + step, step)
  ELSE s[j] \in Cased

\* whether the capital sigma at s[i] is lowered to the final sigma
IsFinalSigma(s, i) == CasedToward(s, i - 1, 0 - 1) /\ ~CasedToward(s, i + 1, 1)

\* str.lower(), from the character s[i] on
RECURSIVE LowerFrom(_, _)
LowerFrom(s, i) ==
  IF i > Len(s) THEN <<>>
  ELSE (IF s[i] = CapitalSigma /\ IsFinalSigma(s, i)
        THEN <<FinalSigma>>
        ELSE LowerChar(s[i]))
       \o LowerFrom(s, i + 1)

\* str.lower()
Lower(s) == LowerFrom(s, 1)

\* \s of the regular expressions, and the characters str.strip() removes
IsSpace(c) == c \in WhiteSpace

\* the alphanumeric characters and "_"
WordChars ==
  Range(UpperLetters) \cup Range(LowerLetters) \cup UnchangedLetters
    \cup Digits \cup {"_"} \cup WideWord

\* \w of the regular expressions
IsWord(c) == c \in WordChars

\* s[from:] of Python, with a 1-based first index
Drop(s, n) == SubSeq(s, n + 1, Len(s))

RECURSIVE LStripSet(_, _)
\* str.lstrip(chars)
LStripSet(s, chars) ==
  IF s # <<>> /\ Head(s) \in chars THEN LStripSet(Tail(s), chars) ELSE s

RECURSIVE RStripSet(_, _)
\* str.rstrip(chars)
RStripSet(s, chars) ==
  IF s # <<>> /\ s[Len(s)] \in chars
  THEN RStripSet(SubSeq(s, 1, Len(s) - 1), chars)
  ELSE s

\* str.strip()
Strip(s) == RStripSet(LStripSet(s, WhiteSpace), WhiteSpace)

\* str.startswith(p)
StartsWith(s, p) == Len(s) >= Len(p) /\ SubSeq(s, 1, Len(p)) = p

\* str.endswith(p)
EndsWith(s, p) == Len(s) >= Len(p) /\ SubSeq(s, Len(s) - Len(p) + 1, Len(s)) = p

\* re.sub(r"[^\w\s-]", "", s)
RECURSIVE DropPunct(_)
DropPunct(s) ==
  IF s = <<>> THEN <<>>
  ELSE IF IsWord(Head(s)) \/ IsSpace(Head(s)) \/ Head(s) = "-"
       THEN <<Head(s)>> \o DropPunct(Tail(s))
       ELSE DropPunct(Tail(s))

\* re.sub(r"\s+", "-", s): every maximal run of whitespace becomes one hyphen
RECURSIVE SpacesToHyphen(_)
SpacesToHyphen(s) ==
  IF s = <<>> THEN <<>>
  ELSE IF IsSpace(Head(s))
       THEN <<"-">> \o SpacesToHyphen(LStripSet(s, WhiteSpace))
       ELSE <<Head(s)>> \o SpacesToHyphen(Tail(s))

\* re.sub(r"-{2,}", "-", s): every maximal run of hyphens becomes one hyphen
RECURSIVE CollapseHyphens(_)
CollapseHyphens(s) ==
  IF s = <<>> THEN <<>>
  ELSE IF Head(s) = "-"
       THEN <<"-">> \o CollapseHyphens(LStripSet(s, {"-"}))
       ELSE <<Head(s)>> \o CollapseHyphens(Tail(s))

make_anchor_from_title(title) ==
  LET s1 == Lower(Strip(title))
      s2 == DropPunct(s1)
      s3 == SpacesToHyphen(s2)
      s4 == CollapseHyphens(s3)
  IN  RStripSet(LStripSet(s4, {"-"}), {"-"})

\* ------------------------------------------------------------------------
\* Lines
\* ------------------------------------------------------------------------
\* A line of a file is a record [s, to]: s is its text; `to` is the path
\* (relative to PAGES_DIR, resolved) that the file system gives for the
\* include target written on the line, and <<>> on a line without one.

NoPath == <<>>

\* the length of the leading run of "=" characters
RECURSIVE EqRun(_)
EqRun(s) == IF s # <<>> /\ Head(s) = "=" THEN 1 + EqRun(Tail(s)) ELSE 0

\* re.match(r"^(=+)\s+(.+)$", line) is not None, for a stripped line
HeadingMatch(line) ==
  LET n == EqRun(line)
  IN  /\ n >= 1
      /\ Len(line) > n
      /\ IsSpace(line[n + 1])
      /\ LStripSet(Drop(line, n), WhiteSpace) # <<>>

\* len(m.group(1))
HeadingLevel(line) == EqRun(line)

\* m.group(2).strip()
HeadingTitle(line) == Strip(LStripSet(Drop(line, EqRun(line)), WhiteSpace))

IncludePrefix == <<"i","n","c","l","u","d","e",":",":">>

\* the lines both scanners step over: blank, comment, attribute, include
Skippable(line) ==
  \/ line = <<>>
  \/ StartsWith(line, <<"/","/">>)
  \/ StartsWith(line, <<":">>)
  \/ StartsWith(line, IncludePrefix)

\* line.startswith("[[") and line.endswith("]]")
IsAnchorLine(line) == StartsWith(line, <<"[","[">>) /\ EndsWith(line, <<"]","]">>)

\* line[2:-2].strip()
AnchorId(line) == Strip(SubSeq(line, 3, Len(line) - 2))

\* line.startswith("= ") and not line.startswith("== ")
IsDocTitleLine(line) == StartsWith(line, <<"=", " ">>) /\ ~StartsWith(line, <<"=", "=", " ">>)

\* line.lstrip("= ").strip()
DocTitle(line) == Strip(LStripSet(line, {"=", " "}))

Untitled == <<"U","n","t","i","t","l","e","d">>

\* ------------------------------------------------------------------------
\* Title and anchor of a file (get_title_and_anchor)
\* ------------------------------------------------------------------------

TitleResult(t, a) == [title |-> t, anchor |-> a]

\* The loop after an anchor marker ("find next heading").  j is the line
\* looked at.  ret = TRUE: the function returns (title, anchor); ret = FALSE:
\* the loop is left and the outer loop goes on at line i.
RECURSIVE FindNextHeading(_, _, _, _)
FindNextHeading(lines, j, anchor, prefer_doc_title) ==
  IF j > Len(lines)
  THEN [ret |-> FALSE, i |-> j, title |-> <<>>, anchor |-> anchor]
  ELSE LET peek == Strip(lines[j].s)
           leave == [ret |-> FALSE, i |-> j, title |-> <<>>, anchor |-> anchor]
       IN  IF Skippable(peek)
           THEN FindNextHeading(lines, j + 1, anchor, prefer_doc_title)
           ELSE IF prefer_doc_title /\ IsDocTitleLine(peek)
           THEN [ret |-> TRUE, i |-> j, title |-> DocTitle(peek), anchor |-> anchor]
           ELSE IF HeadingMatch(peek)
           THEN IF prefer_doc_title
                THEN IF HeadingLevel(peek) = 1
                     THEN [ret |-> TRUE, i |-> j, title |-> HeadingTitle(peek),
                           anchor |-> anchor]
                     ELSE leave
                ELSE IF HeadingLevel(peek) >= 2
                     THEN [ret |-> TRUE, i |-> j, title |-> HeadingTitle(peek),
                           anchor |-> IF anchor = <<>>
                                      THEN make_anchor_from_title(HeadingTitle(peek))
                                      ELSE anchor]
                     ELSE leave
           ELSE leave

\* The outer loop of get_title_and_anchor, at line i with the anchor held.
RECURSIVE ScanTitle(_, _, _, _)
ScanTitle(lines, i, anchor, prefer_doc_title) ==
  IF i > Len(lines)
  THEN TitleResult(Untitled, anchor)
  ELSE LET line == Strip(lines[i].s)
       IN  IF Skippable(line)
           THEN ScanTitle(lines, i + 1, anchor, prefer_doc_title)
           ELSE IF IsAnchorLine(line)
           THEN LET r == FindNextHeading(lines, i + 1, AnchorId(line), prefer_doc_title)
                IN  IF r.ret
                    THEN TitleResult(r.title, r.anchor)
                    ELSE ScanTitle(lines, r.i, AnchorId(line), prefer_doc_title)
           ELSE IF prefer_doc_title
           THEN IF IsDocTitleLine(line)
                THEN TitleResult(DocTitle(line),
                                 IF anchor = <<>>
                                 THEN make_anchor_from_title(DocTitle(line))
                                 ELSE anchor)
                ELSE ScanTitle(lines, i + 1, anchor, prefer_doc_title)
           ELSE IF HeadingMatch(line) /\ HeadingLevel(line) >= 2
                THEN TitleResult(HeadingTitle(line),
                                 IF anchor = <<>>
                                 THEN make_anchor_from_title(HeadingTitle(line))
                                 ELSE anchor)
                ELSE ScanTitle(lines, i + 1, anchor, prefer_doc_title)

\* get_title_and_anchor, on the lines read_text_lines gives for the file
get_title_and_anchor(lines, prefer_doc_title) ==
  IF lines = <<>>
  THEN TitleResult(Untitled, <<>>)
  ELSE ScanTitle(lines, 1, <<>>, prefer_doc_title)

\* ------------------------------------------------------------------------
\* In-page section headings (extract_section_headings)
\* ------------------------------------------------------------------------

\* The loop of extract_section_headings at line i; last_anchor = <<>> is None.
RECURSIVE ScanSections(_, _, _)
ScanSections(lines, i, last_anchor) ==
  IF i > Len(lines)
  THEN <<>>
  ELSE LET line == Strip(lines[i].s)
       IN  IF IsAnchorLine(line)
           THEN ScanSections(lines, i + 1, AnchorId(line))
           ELSE IF Skippable(line)
           THEN ScanSections(lines, i + 1, last_anchor)
           ELSE IF HeadingMatch(line)
                   /\ Lower(HeadingTitle(line)) \notin IGNORE_TITLES
                   /\ HeadingLevel(line) \in ALLOWED_SECTION_LEVELS
           THEN << [level |-> HeadingLevel(line),
                    anchor |-> IF last_anchor = <<>>
                               THEN make_anchor_from_title(HeadingTitle(line))
                               ELSE last_anchor,
                    title |-> HeadingTitle(line)] >>
                \o ScanSections(lines, i + 1, <<>>)
           ELSE ScanSections(lines, i + 1, <<>>)

extract_section_headings(lines) == ScanSections(lines, 1, <<>>)

\* ------------------------------------------------------------------------
\* The file system
\* ------------------------------------------------------------------------

VARIABLES
  disk,       \* the lines of every file
  present,    \* the files that exist
  phase,      \* where main is: "master", "includes", "done"
  m,          \* the index in MASTER_FILES of the master main is at
  pending,    \* the includes main's loop (lines 353-358) has yet to visit
  stack,      \* the activations of process_page that are in their include loop
  nav_lines,  \* the nav lines appended so far
  visited,    \* the set of (file, master key) pairs
  alias_files,\* the alias stubs written by create_alias_file
  dest,       \* the content of DEST_NAV_FILE, <<>> until it is written
  calls,      \* history: the invocations of process_page, in order
  t_lines,    \* get_title_and_anchor on its own: the lines of the file given to get_title_and_anchor
  t_doc,      \* get_title_and_anchor on its own: prefer_doc_title
  t_out,      \* get_title_and_anchor on its own: the result, once computed
  t_secs      \* get_title_and_anchor on its own: what extract_section_headings gives, once computed

vars == <<disk, present, phase, m, pending, stack, nav_lines, visited,
          alias_files, dest, calls, t_lines, t_doc, t_out, t_secs>>

nav_vars == <<disk, present, phase, m, pending, stack, nav_lines, visited,
              alias_files, dest, calls>>

title_vars == <<t_lines, t_doc, t_out, t_secs>>

\* A file system fs is the record [disk, present]; FS is the one main runs on.
FS == [disk |-> disk, present |-> present]

\* Paths are relative to PAGES_DIR: PAGES_DIR itself is the empty path and
\* MODULE_ROOT is "..".
DEST_NAV_FILE == <<"..", "nav.adoc">>

\* the path is PAGES_DIR or a directory above it
AbovePages(p) == \A i \in DOMAIN p : p[i] = ".."

\* Path.is_dir(): fs.present holds the regular files, and a directory is
\* there as far as a file lies in it; PAGES_DIR and the directories above it
\* are always there
IsDirectory(fs, p) ==
  \/ AbovePages(p)
  \/ \E f \in fs.present : Len(f) > Len(p) /\ SubSeq(f, 1, Len(p)) = p

\* Path.exists(): true of a file and of a directory
Exists(fs, p) == p \in fs.present \/ IsDirectory(fs, p)

\* read_text_lines: an unreadable file (one that is not there, a directory)
\* gives no lines
read_text_lines(fs, f) == IF f \in fs.present THEN fs.disk[f] ELSE <<>>

\* PARTIALS_DIR in inc.parents: PARTIALS_DIR is MODULE_ROOT / "partials",
\* which is ../partials relative to PAGES_DIR
InPartials(p) == Len(p) > 2 /\ SubSeq(p, 1, 2) = <<"..", "partials">>

\* file_path.relative_to(PAGES_DIR) does not raise
InPagesDir(p) == p = <<>> \/ p[1] # ".."

\* the maximal run of characters other than "[" and "]" at the head of s
RECURSIVE NonBracketRun(_)
NonBracketRun(s) ==
  IF s # <<>> /\ Head(s) \notin {"[", "]"} THEN 1 + NonBracketRun(Tail(s)) ELSE 0

\* re.compile(r'include::([^[\]]+)\[\]').search(line) is not None
IncludeMatch(s) ==
  \E k \in 1..Len(s) :
    /\ StartsWith(Drop(s, k - 1), IncludePrefix)
    /\ LET rest == Drop(s, k - 1 + Len(IncludePrefix))
           n == NonBracketRun(rest)
       IN  n >= 1 /\ StartsWith(Drop(rest, n), <<"[", "]">>)

\* the loop of extract_include_files over the lines of a file
RECURSIVE IncludesIn(_, _)
IncludesIn(fs, lines) ==
  IF lines = <<>> THEN <<>>
  ELSE LET l == Head(lines)
       IN  IF ~IncludeMatch(l.s) THEN IncludesIn(fs, Tail(lines))
           ELSE IF InPartials(l.to) THEN IncludesIn(fs, Tail(lines))
           ELSE IF ~Exists(fs, l.to) THEN IncludesIn(fs, Tail(lines))
           ELSE <<l.to>> \o IncludesIn(fs, Tail(lines))

extract_include_files(fs, f) == IncludesIn(fs, read_text_lines(fs, f))

\* re.match(r"^===\s+", line.strip())
IsLevel3Line(s) ==
  LET line == Strip(s)
  IN  StartsWith(line, <<"=", "=", "=">>) /\ Len(line) > 3 /\ IsSpace(line[4])

is_aggregator_page(fs, f) ==
  /\ extract_include_files(fs, f) # <<>>
  /\ \A i \in 1..Len(read_text_lines(fs, f)) : ~IsLevel3Line(read_text_lines(fs, f)[i].s)

\* Path(master_key).name
BaseName(p) == <<p[Len(p)]>>

\* the alias is found and its stub written, but the shared path is returned
\* as the link target
resolve_alias_keeps_path(master_key, xref_path) ==
  LET hit(key) == key \in DOMAIN ALIAS_MAP /\ xref_path \in DOMAIN ALIAS_MAP[key]
  IN  IF hit(master_key)
      THEN [final |-> xref_path, alias |-> ALIAS_MAP[master_key][xref_path]]
      ELSE IF hit(BaseName(master_key))
      THEN [final |-> xref_path, alias |-> ALIAS_MAP[BaseName(master_key)][xref_path]]
      ELSE [final |-> xref_path, alias |-> NoPath]

\* resolve_alias: alias = NoPath is None
resolve_alias(master_key, xref_path) ==
  LET hit(key) == key \in DOMAIN ALIAS_MAP /\ xref_path \in DOMAIN ALIAS_MAP[key]
  IN  IF hit(master_key)
      THEN [final |-> ALIAS_MAP[master_key][xref_path],
            alias |-> ALIAS_MAP[master_key][xref_path]]
      ELSE IF hit(BaseName(master_key))
      THEN [final |-> ALIAS_MAP[BaseName(master_key)][xref_path],
            alias |-> ALIAS_MAP[BaseName(master_key)][xref_path]]
      ELSE [final |-> xref_path, alias |-> NoPath]

\* a line of text
Txt(s) == [s |-> s, to |-> NoPath]

\* the text of the components of the paths ALIAS_MAP shares
ComponentText(c) ==
  CASE c = ".."                -> <<".", ".">>
    [] c = "perfdmf"           -> <<"p","e","r","f","d","m","f">>
    [] c = "book.adoc"         -> <<"b","o","o","k",".","a","d","o","c">>
    [] c = "newguide"          -> <<"n","e","w","g","u","i","d","e">>
    [] c = "introduction.adoc" -> <<"i","n","t","r","o","d","u","c","t","i","o","n",
                                    ".","a","d","o","c">>

\* str(path): the components joined by "/"
RECURSIVE PathText(_)
PathText(p) ==
  IF Len(p) = 1 THEN ComponentText(p[1])
  ELSE ComponentText(p[1]) \o <<"/">> \o PathText(Tail(p))

\* path.parent
Parent(p) == SubSeq(p, 1, Len(p) - 1)

\* the length of the longest common prefix of two paths
RECURSIVE CommonLen(_, _)
CommonLen(p, q) ==
  IF p # <<>> /\ q # <<>> /\ Head(p) = Head(q) THEN 1 + CommonLen(Tail(p), Tail(q)) ELSE 0

\* os.path.relpath(target, start): up from start to the common directory,
\* then down to the target
RelPath(target, start) ==
  LET n == CommonLen(target, start)
  IN  [i \in 1..(Len(start) - n) |-> ".."] \o Drop(target, n)

\* Path.resolve() on a path relative to PAGES_DIR: ".." cancels the component
\* before it
RECURSIVE Resolve(_, _)
Resolve(done, p) ==
  IF p = <<>> THEN done
  ELSE IF Head(p) = ".." /\ done # <<>> /\ done[Len(done)] # ".."
       THEN Resolve(Parent(done), Tail(p))
       ELSE Resolve(Append(done, Head(p)), Tail(p))

\* the content create_alias_file writes (lines 228-233)
AliasStub(alias_page_path, target_page_path) ==
  LET relative_include_path == RelPath(target_page_path, Parent(alias_page_path))
  IN  << Txt(<<":","p","a","g","e","-","a","l","i","a","s",":"," ">>
             \o PathText(target_page_path)),
         [s  |-> IncludePrefix \o PathText(relative_include_path) \o <<"[", "]">>,
          to |-> Resolve(<<>>, Parent(alias_page_path) \o relative_include_path)] >>

\* alias_abs_path.parent.mkdir(parents=True, exist_ok=True) raises: a file
\* stands where a directory is to be
MkdirRaises(fs, d) == \E k \in 1..Len(d) : SubSeq(d, 1, k) \in fs.present

\* path.write_text(...) raises: the path is a directory
WriteRaises(fs, p) == IsDirectory(fs, p)

\* create_alias_file raises (lines 227, 234); nothing in main or
\* process_page catches it
create_alias_file_raises(fs, alias_page_path) ==
  MkdirRaises(fs, Parent(alias_page_path)) \/ WriteRaises(fs, alias_page_path)

\* create_alias_file: the file system after the stub is written
create_alias_file(fs, alias_page_path, target_page_path) ==
  [disk    |-> [fs.disk EXCEPT ![alias_page_path] =
                                 AliasStub(alias_page_path, target_page_path)],
   present |-> fs.present \cup {alias_page_path}]

\* ------------------------------------------------------------------------
\* Navigation generation
\* ------------------------------------------------------------------------
\* A nav line "<stars> xref:<target>#<anchor>[<title>]" is the record of its
\* parts; anchor = <<>> is the form without "#<anchor>".  A line that is no
\* entry has stars = 0 and its text in title.

Min(a, b) == IF a < b THEN a ELSE b
Max(a, b) == IF a > b THEN a ELSE b

NavEntry(stars, target, title, anchor) ==
  [stars |-> stars, target |-> target, anchor |-> anchor, title |-> title]

BlankLine == NavEntry(0, NoPath, <<>>, <<>>)

HeaderLine == NavEntry(0, NoPath, <<"/", "/">>, <<>>)

\* one marker too many, as if levels were counted from 0
IndentOffByOne(level) == level + 1

\* the number of nesting markers add_entry writes
Indent(level) == Max(1, Min(level, MAX_NAV_DEPTH))

add_entry(nav, level, xref_target, title, anchor) ==
  Append(nav, NavEntry(Indent(level), xref_target, title, anchor))

\* inc_title.lower() == "untitled" (a title is never empty)
IsUntitled(title) == Lower(title) = <<"u","n","t","i","t","l","e","d">>

\* the level process_aggregator_children_as_alias_sections gives a child
AliasChildLevel(current_level) == Min(current_level + 1, MAX_NAV_DEPTH)

\* the loop of process_aggregator_children_as_alias_sections over the includes
RECURSIVE AliasSections(_, _, _, _, _)
AliasSections(fs, incs, alias_xref_target, current_level, nav) ==
  IF incs = <<>> THEN nav
  ELSE LET r == get_title_and_anchor(read_text_lines(fs, Head(incs)), FALSE)
       IN  IF IsUntitled(r.title)
           THEN AliasSections(fs, Tail(incs), alias_xref_target, current_level, nav)
           ELSE AliasSections(fs, Tail(incs), alias_xref_target, current_level,
                              add_entry(nav, AliasChildLevel(current_level),
                                        alias_xref_target, r.title, r.anchor))

process_aggregator_children_as_alias_sections(fs, f, alias_xref_target, current_level, nav) ==
  AliasSections(fs, extract_include_files(fs, f), alias_xref_target, current_level, nav)

\* the loop of process_page over the in-page sections (lines 307-312)
RECURSIVE SectionEntries(_, _, _, _, _, _)
SectionEntries(sections, title, anchor, current_level, final_xref_path, nav) ==
  IF sections = <<>> THEN nav
  ELSE LET sec == Head(sections)
           sub_nav_level == current_level + (sec.level - 2)
           rest(n) == SectionEntries(Tail(sections), title, anchor, current_level,
                                     final_xref_path, n)
       IN  IF sec.anchor = anchor \/ Lower(Strip(sec.title)) = Lower(Strip(title))
           THEN rest(nav)
           ELSE IF sub_nav_level <= MAX_NAV_DEPTH
           THEN rest(add_entry(nav, sub_nav_level, final_xref_path, sec.title, sec.anchor))
           ELSE rest(nav)

\* What process_page gives up to its include loop (lines 276-315):
\*   fs      the file system after it (the alias stub is written first),
\*   nav     the nav lines after it,
\*   alias   the alias stub written (NoPath: none),
\*   incs    the includes its loop (lines 316-321) will visit, <<>> when it
\*           returns before the loop,
\*   entry   whether the page's own entry was added,
\*   aliased_aggregator   whether it took the branch of lines 301-303,
\*   raised  whether create_alias_file raised (line 288).
PageResult(fs, nav, alias, incs, entry, aliased_aggregator, raised) ==
  [fs |-> fs, nav |-> nav, alias |-> alias, incs |-> incs, entry |-> entry,
   aliased_aggregator |-> aliased_aggregator, raised |-> raised]

\* lines 292-315: the page's entry and what hangs below it, given the title
\* and anchor ta read at line 291 and whether the page is an aggregator
process_page_entries(fs, ra, ta, aggregator, file_path, current_level, nav) ==
  IF IsUntitled(ta.title)
  THEN PageResult(fs, nav, ra.alias, <<>>, FALSE, FALSE, FALSE)
  ELSE IF aggregator /\ ra.alias # NoPath
  THEN PageResult(fs,
                  process_aggregator_children_as_alias_sections(
                    fs, file_path, ra.final, current_level,
                    add_entry(nav, current_level, ra.final, ta.title, ta.anchor)),
                  ra.alias, <<>>, TRUE, TRUE, FALSE)
  ELSE PageResult(fs,
                  SectionEntries(
                    extract_section_headings(read_text_lines(fs, file_path)),
                    ta.title, ta.anchor, current_level, ra.final,
                    add_entry(nav, current_level, ra.final, ta.title, ta.anchor)),
                  ra.alias,
                  IF aggregator THEN extract_include_files(fs, file_path) ELSE <<>>,
                  TRUE, FALSE, FALSE)

\* lines 290-315, on the file system fs that holds the alias stub
process_page_read(fs, ra, file_path, current_level, nav) ==
  process_page_entries(fs, ra,
                       get_title_and_anchor(read_text_lines(fs, file_path), FALSE),
                       is_aggregator_page(fs, file_path),
                       file_path, current_level, nav)

\* lines 286-315: the alias stub is written when resolve_alias gave an alias
process_page_aliased(fs0, ra, file_path, current_level, nav) ==
  IF ra.alias # NoPath /\ create_alias_file_raises(fs0, ra.alias)
  THEN PageResult(fs0, nav, NoPath, <<>>, FALSE, FALSE, TRUE)
  ELSE process_page_read(IF ra.alias # NoPath
                         THEN create_alias_file(fs0, ra.alias, file_path)
                         ELSE fs0,
                         ra, file_path, current_level, nav)

\* The body of process_page up to its include loop (lines 276-315), on the
\* file system fs0.
process_page_body(fs0, file_path, master_key, current_level, nav) ==
  IF ~InPagesDir(file_path)
  THEN PageResult(fs0, nav, NoPath, <<>>, FALSE, FALSE, FALSE)
  ELSE process_page_aliased(fs0, resolve_alias(master_key, file_path), file_path,
                            current_level, nav)

\* ------------------------------------------------------------------------
\* The file systems main is run on
\* ------------------------------------------------------------------------

\* the number of chapter pages a file system holds
NumPages == 4

\* the longest file given to get_title_and_anchor on its own
MaxLines == 3

ChapterNames == <<"c1.adoc", "c2.adoc", "c3.adoc", "c4.adoc", "c5.adoc", "c6.adoc",
                  "c7.adoc", "c8.adoc">>

\* Page 3 is the shared page that ALIAS_MAP aliases under the reference guide.
Page(i) == IF i = 3 THEN PerfdmfBook ELSE <<"chapters", ChapterNames[i]>>

Pages == { Page(i) : i \in 1..NumPages }

\* an include target that is never on disk
MissingPage == Page(NumPages + 1)

PartialFile == <<"..", "partials", "common.adoc">>

OutsideFile == <<"..", "examples", "readme.adoc">>

Masters == Range(MASTER_FILES)

\* the alias page of the shared page: create_alias_file writes it
AliasPage == AliasTable[PerfdmfBook]

\* the directory of the chapter pages
ChaptersDir == <<"chapters">>

\* a file in the directory d
Inside(d) == d \o <<"readme.adoc">>

\* the paths that stand for a directory on some of the file systems
DirPaths == Masters \cup {AliasPage, DEST_NAV_FILE}

Files == Masters \cup Pages \cup {AliasPage, MissingPage, PartialFile, OutsideFile}
           \cup { Inside(d) : d \in DirPaths }

\* an include line whose target resolves to p; the path text is abbreviated
Inc(p) == [s |-> IncludePrefix \o <<"p", "[", "]">>, to |-> p]

LnBlank == Txt(<<>>)
LnComment == Txt(<<"/", "/", " ", "c">>)
LnAttr == Txt(<<":", "t", "o", "c", ":">>)
LnAnchor == Txt(<<"[", "[", "u", "s", "e", "]", "]">>)
LnEmptyAnchor == Txt(<<"[", "[", "]", "]">>)
LnDocTitle == Txt(<<"=", " ", "T", "A", "U", " ", "G", "u", "i", "d", "e">>)
LnChapter == Txt(<<"=", "=", " ", "U", "s", "a", "g", "e", "!">>)
LnSection == Txt(<<"=", "=", "=", " ", "F", "l", "a", "g", "s">>)
LnNotes == Txt(<<"=", "=", "=", " ", "N", "o", "t", "e", "s">>)
LnSelfSection == Txt(<<"=", "=", "=", " ", "U", "S", "A", "G", "E", "!">>)
LnText == Txt(<<"S", "o", "m", "e", " ", "t", "e", "x", "t", ".">>)
LnAppendix == Txt(<<"=", "=", " ", "A", "p", "p", "e", "n", "d", "i", "x">>)
LnIndented == Txt(<<" ", "=", "=", " ", " ", "S", "e", "t", "-", "u", "p", " ", "2", " ">>)
\* a heading set off by no-break spaces (U+00A0), with letters of Latin-1
LnLatin == Txt(<<"=", "=", "=", " ", "É", "t", "é", " ", "²", "×", " ">>)
\* a heading of Greek capitals that end in a sigma, the dotted capital I
\* (U+0130) and a Chinese character
LnWide == Txt(<<"=", "=", "=", " ", "U+0391", "U+03A3", " ", "U+0130", "U+4E2D">>)

PageKinds == {"absent", "untitled", "sections", "chain", "back", "master"}

\* the kinds of the pages of a book that reads the alias page and a directory
SharingKinds == {"untitled", "sections", "chain", "back", "alias", "dir"}

\* the lines of page i of each kind; its successor is page i + 1
PageLines(i, kind) ==
  CASE kind = "untitled" -> <<LnAnchor, LnText, Inc(Page(i + 1))>>
    [] kind = "sections" -> <<LnAnchor, LnChapter, LnText, LnSection, LnNotes,
                              LnSelfSection, Inc(PartialFile), Inc(Page(i + 1))>>
    [] kind = "chain"    -> <<LnChapter, Inc(Page(i + 1))>>
    [] kind = "back"     -> <<LnAnchor, LnChapter, Inc(Page(i + 1)), Inc(Page(1))>>
    [] kind = "master"   -> <<LnChapter, Inc(OutsideFile), Inc(UsersGuide),
                              Inc(Page(i + 1))>>
    [] kind = "alias"    -> <<LnChapter, Inc(AliasPage)>>
    [] kind = "dir"      -> <<LnChapter, Inc(ChaptersDir)>>
    [] OTHER             -> <<>>

\* the pages whose include loop process_page can enter
KindTargets(i, kind) ==
  CASE kind = "chain"  -> {i + 1}
    [] kind = "back"   -> {i + 1, 1}
    [] kind = "master" -> {i + 1}
    [] OTHER           -> {}

\* the pages reachable from the pages S through the includes of aggregators
RECURSIVE ReadFrom(_, _)
ReadFrom(S, kinds) ==
  LET T == (S \cup UNION { KindTargets(i, kinds[i]) : i \in S }) \cap (1..NumPages)
  IN  IF T = S THEN S ELSE ReadFrom(T, kinds)

\* "dir": the path of the master is a directory
MasterKinds == {"absent", "titled", "anchored", "untitled", "dir"}

\* the lines of a master of each kind; "book" is the master of a whole book
MasterLines(kind) ==
  CASE kind = "titled"   -> <<LnDocTitle, Inc(Page(1))>>
    [] kind = "anchored" -> <<LnAnchor, LnDocTitle, Inc(Page(1))>>
    [] kind = "untitled" -> <<LnComment, Inc(Page(1))>>
    [] kind = "book"     -> <<LnAttr, LnDocTitle, Inc(Page(1)), LnAppendix, Inc(Page(3))>>
    [] kind = "sharing"  -> <<LnDocTitle, Inc(Page(2)), Inc(Page(3)), Inc(Page(1)),
                              Inc(AliasPage), Inc(ChaptersDir)>>
    [] OTHER             -> <<>>

\* what the alias page holds before the run: nothing, a page of its own, or
\* the stub an earlier run wrote; "dir": its path is a directory
AliasKinds == {"absent", "old", "stub", "dir"}

AliasLines(kind) ==
  CASE kind = "old"  -> <<LnAppendix, LnSection>>
    [] kind = "stub" -> AliasStub(AliasPage, PerfdmfBook)
    [] OTHER         -> <<>>

\* the disk holding masters of the kinds mk, pages of the kinds pk and the
\* alias page of the kind ak
DiskOf(mk, pk, ak) ==
  [f \in Files |->
     IF f \in Masters THEN MasterLines(mk[f])
     ELSE IF f = AliasPage THEN AliasLines(ak)
     ELSE IF f \in Pages
     THEN PageLines(CHOOSE i \in 1..NumPages : Page(i) = f,
                    pk[CHOOSE i \in 1..NumPages : Page(i) = f])
     ELSE IF f = OutsideFile THEN <<LnChapter>>
     ELSE IF f = PartialFile THEN <<LnText>>
     ELSE IF f \in { Inside(d) : d \in DirPaths } THEN <<LnText>>
     ELSE <<>>]

\* the files that are there; nd: the path of the nav file is a directory
PresentOf(mk, pk, ak, nd) ==
  { f \in Masters : mk[f] \notin {"absent", "dir"} }
  \cup { Inside(f) : f \in { g \in Masters : mk[g] = "dir" } }
  \cup { Page(i) : i \in { j \in 1..NumPages : pk[j] # "absent" } }
  \cup (IF ak \in {"old", "stub"} THEN {AliasPage} ELSE {})
  \cup (IF ak = "dir" THEN {Inside(AliasPage)} ELSE {})
  \cup (IF nd THEN {Inside(DEST_NAV_FILE)} ELSE {})
  \cup {OutsideFile, PartialFile}

\* what main sets up before its loop (lines 326-331), on a given disk
NavStart(mk, pk, ak, nd) ==
  /\ disk = DiskOf(mk, pk, ak)
  /\ present = PresentOf(mk, pk, ak, nd)
  /\ phase = "master"
  /\ m = 1
  /\ pending = <<>>
  /\ stack = <<>>
  /\ nav_lines = <<>>
  /\ visited = {}
  /\ alias_files = {}
  /\ dest = <<>>
  /\ calls = <<>>

TitleIdle ==
  /\ t_lines = <<>>
  /\ t_doc = FALSE
  /\ t_out = <<>>
  /\ t_secs = <<>>

\* Whole books: every master is there and includes pages 1 and 3; the pages
\* are of every kind, and a page no traversal reads is absent.
InitGraph ==
  \E pk \in [1..NumPages -> PageKinds] :
    /\ \A i \in 1..NumPages : pk[i] # "absent" <=> i \in ReadFrom({1, 3}, pk)
    /\ NavStart([f \in Masters |-> "book"], pk, "absent", FALSE)
    /\ TitleIdle

\* Masters of every kind, there or not, over one page with sections; the
\* nav file can be written or not.
InitBooks ==
  \E mk \in [Masters -> MasterKinds], nd \in BOOLEAN :
    /\ NavStart(mk, [i \in 1..NumPages |-> IF i = 1 THEN "sections" ELSE "absent"],
                "absent", nd)
    /\ TitleIdle

\* Books that read the alias page and a directory: every master includes
\* pages 2, 3 and 1, the alias page, which is there or not before the run,
\* and the directory of the chapters; the page after the shared page is
\* there when the shared page includes it.
InitSharing ==
  \E pk \in [1..3 -> SharingKinds], ak \in AliasKinds :
    /\ NavStart([f \in Masters |-> "sharing"],
                [i \in 1..NumPages |->
                   IF i <= 3 THEN pk[i]
                   ELSE IF i = 4 /\ pk[3] \in {"chain", "back"} THEN "sections"
                   ELSE "absent"],
                ak, FALSE)
    /\ TitleIdle

Init == InitGraph \/ InitBooks \/ InitSharing

\* ------------------------------------------------------------------------
\* main and the recursion of process_page
\* ------------------------------------------------------------------------

\* the master main is at, and its key (lines 334, 352)
Master == MASTER_FILES[m]

\* the guard forgotten: every include is processed again
SeenNever(key) == FALSE

\* key in visited (lines 318, 355)
Seen(key) == key \in visited

\* the recursion keeps the level of the page it comes from
ChildLevelSame(current_level) == current_level

\* the level process_page gives the pages it recurses into (line 321)
ChildLevel(current_level) == Min(current_level + 1, MAX_NAV_DEPTH)

\* whether main adds the separator after the master it is at (line 361)
NeedsSeparator == Master # MASTER_FILES[Len(MASTER_FILES)]

Top == stack[Len(stack)]

\* The state after process_page(inc, master_key, level, ...) has run up to
\* its include loop with the result r, called from the activation parent
\* (0: main); the callers' activations are `below`.  The page's include
\* loop, if it is entered, becomes the top activation.  The stub
\* create_alias_file writes is on the disk from then on.  When
\* create_alias_file raises, the exception ends every activation and main.
Invoked(r, inc, master_key, level, parent, below) ==
  /\ visited' = visited \cup {<<inc, master_key>>}
  /\ phase' = IF r.raised THEN "failed" ELSE phase
  /\ disk' = r.fs.disk
  /\ present' = r.fs.present
  /\ nav_lines' = r.nav
  /\ alias_files' = IF r.alias # NoPath
                    THEN alias_files \cup {[alias |-> r.alias, target |-> inc]}
                    ELSE alias_files
  /\ calls' = Append(calls,
                     [file |-> inc, master_key |-> master_key, level |-> level,
                      parent |-> parent, from |-> Len(nav_lines),
                      to |-> Len(r.nav), entry |-> r.entry,
                      aliased_aggregator |-> r.aliased_aggregator,
                      raised |-> r.raised])
  /\ stack' = IF r.raised THEN <<>>
              ELSE IF r.incs # <<>>
              THEN Append(below, [file |-> inc, master_key |-> master_key,
                                  level |-> level, incs |-> r.incs,
                                  call |-> Len(calls) + 1])
              ELSE below

\* the call process_page(inc, master_key, level, nav_lines, visited)
Invoke(inc, master_key, level, parent, below) ==
  Invoked(process_page_body(FS, inc, master_key, level, nav_lines),
          inc, master_key, level, parent, below)

\* main is at the top of its loop over MASTER_FILES (line 333)
AtMaster == phase = "master" /\ m <= Len(MASTER_FILES)

\* main is past its loop over MASTER_FILES (line 364)
AtEnd == phase = "master" /\ m > Len(MASTER_FILES)

\* main is in its loop over the includes of the master (line 353)
InMainLoop == phase = "includes" /\ stack = <<>> /\ pending # <<>>

\* main's loop over the includes of the master is over (line 360)
MainLoopOver == phase = "includes" /\ stack = <<>> /\ pending = <<>>

\* the top activation of process_page is in its include loop (line 316)
InPageLoop == stack # <<>> /\ Top.incs # <<>>

\* the include loop of the top activation is over
PageLoopOver == stack # <<>> /\ Top.incs = <<>>

\* lines 336-338: the master file is not there
MasterMissing ==
  /\ AtMaster
  /\ ~Exists(FS, Master)
  /\ m' = m + 1
  /\ UNCHANGED <<disk, present, phase, pending, stack, nav_lines, visited,
                 alias_files, dest, calls, title_vars>>

\* lines 340-352: the master's entry, and the includes to walk
MasterEntry ==
  /\ AtMaster
  /\ Exists(FS, Master)
  /\ LET book == get_title_and_anchor(read_text_lines(FS, Master), TRUE)
     IN  nav_lines' = Append(nav_lines, NavEntry(1, Master, book.title, book.anchor))
  /\ pending' = extract_include_files(FS, Master)
  /\ phase' = "includes"
  /\ UNCHANGED <<disk, present, m, stack, visited, alias_files, dest, calls,
                 title_vars>>

\* lines 353-356: an include of the master that was visited already
MainSkip ==
  /\ InMainLoop
  /\ Seen(<<Head(pending), Master>>)
  /\ pending' = Tail(pending)
  /\ UNCHANGED <<disk, present, phase, m, stack, nav_lines, visited, alias_files,
                 dest, calls, title_vars>>

\* lines 353-358: main calls process_page on an include of the master
MainCall ==
  /\ InMainLoop
  /\ ~Seen(<<Head(pending), Master>>)
  /\ pending' = Tail(pending)
  /\ Invoke(Head(pending), Master, 2, 0, <<>>)
  /\ UNCHANGED <<m, dest, title_vars>>

\* lines 316-319: an include of the page that was visited already
PageSkip ==
  /\ InPageLoop
  /\ Seen(<<Head(Top.incs), Top.master_key>>)
  /\ stack' = [stack EXCEPT ![Len(stack)].incs = Tail(@)]
  /\ UNCHANGED <<disk, present, phase, m, pending, nav_lines, visited, alias_files,
                 dest, calls, title_vars>>

\* lines 316-321: process_page calls itself on an include of the page
PageCall ==
  /\ InPageLoop
  /\ ~Seen(<<Head(Top.incs), Top.master_key>>)
  /\ Invoke(Head(Top.incs), Top.master_key, ChildLevel(Top.level), Top.call,
            [stack EXCEPT ![Len(stack)].incs = Tail(@)])
  /\ UNCHANGED <<m, pending, dest, title_vars>>

\* the include loop of the top activation is over: process_page returns
PageReturn ==
  /\ PageLoopOver
  /\ stack' = SubSeq(stack, 1, Len(stack) - 1)
  /\ UNCHANGED <<disk, present, phase, m, pending, nav_lines, visited, alias_files,
                 dest, calls, title_vars>>

\* lines 360-362: the includes of the master are done
MasterDone ==
  /\ MainLoopOver
  /\ nav_lines' = IF NeedsSeparator THEN Append(nav_lines, BlankLine) ELSE nav_lines
  /\ m' = m + 1
  /\ phase' = "master"
  /\ UNCHANGED <<disk, present, pending, stack, visited, alias_files, dest, calls,
                 title_vars>>

\* lines 364-365: the nav file is written
WriteNav ==
  /\ AtEnd
  /\ ~WriteRaises(FS, DEST_NAV_FILE)
  /\ dest' = <<HeaderLine, BlankLine>> \o nav_lines
  /\ phase' = "done"
  /\ UNCHANGED <<disk, present, m, pending, stack, nav_lines, visited, alias_files,
                 calls, title_vars>>

\* line 365: DEST_NAV_FILE.write_text raises
WriteNavRaises ==
  /\ AtEnd
  /\ WriteRaises(FS, DEST_NAV_FILE)
  /\ phase' = "failed"
  /\ UNCHANGED <<disk, present, m, pending, stack, nav_lines, visited, alias_files,
                 dest, calls, title_vars>>

Next ==
  \/ MasterMissing
  \/ MasterEntry
  \/ MainSkip
  \/ MainCall
  \/ PageSkip
  \/ PageCall
  \/ PageReturn
  \/ MasterDone
  \/ WriteNav
  \/ WriteNavRaises

Spec == Init /\ [][Next]_vars

\* ------------------------------------------------------------------------
\* get_title_and_anchor on its own
\* ------------------------------------------------------------------------

TitlePalette ==
  { LnBlank, LnComment, LnAttr, Inc(Page(1)), LnAnchor, LnEmptyAnchor,
    LnDocTitle, LnChapter, LnIndented, LnLatin, LnWide, LnSection, LnNotes, LnText }

NavIdle ==
  /\ disk = [f \in Files |-> <<>>]
  /\ present = {}
  /\ phase = "done"
  /\ m = Len(MASTER_FILES) + 1
  /\ pending = <<>>
  /\ stack = <<>>
  /\ nav_lines = <<>>
  /\ visited = {}
  /\ alias_files = {}
  /\ dest = <<>>
  /\ calls = <<>>

\* a file of at most MaxLines lines of the palette, in either mode
TitleInit ==
  /\ t_lines \in UNION { [1..n -> TitlePalette] : n \in 0..MaxLines }
  /\ t_doc \in BOOLEAN
  /\ t_out = <<>>
  /\ t_secs = <<>>
  /\ NavIdle

\* the call get_title_and_anchor(file, prefer_doc_title)
TitleApply ==
  /\ t_out = <<>>
  /\ t_out' = <<get_title_and_anchor(t_lines, t_doc)>>
  /\ UNCHANGED <<t_lines, t_doc, t_secs, nav_vars>>

\* the call extract_section_headings(file)
SectionsApply ==
  /\ t_secs = <<>>
  /\ t_secs' = <<extract_section_headings(t_lines)>>
  /\ UNCHANGED <<t_lines, t_doc, t_out, nav_vars>>

TitleNext == TitleApply \/ SectionsApply

SpecTitle == TitleInit /\ [][TitleNext]_vars

\* ------------------------------------------------------------------------
\* Properties
\* ------------------------------------------------------------------------

\* the nav line that is the own entry of the invocation c of process_page
OwnEntry(c) == nav_lines[c.from + 1]

\* the nav lines the invocation c appended itself (not its recursion)
Emitted(c) == { nav_lines[i] : i \in (c.from + 1)..c.to }

\* C1: process_page is invoked at most once for each pair (file, master key)
\* in one run of main.
C1_OncePerPair ==
  \A i, j \in DOMAIN calls :
    (calls[i].file = calls[j].file /\ calls[i].master_key = calls[j].master_key)
      => i = j

\* C1 witness: an include loop stands before a page that was already
\* processed under this master (a second chain to it, or a cycle).
C1_Witness ==
  /\ stack # <<>>
  /\ Top.incs # <<>>
  /\ \E k \in DOMAIN calls :
       calls[k].file = Head(Top.incs) /\ calls[k].master_key = Top.master_key

\* an upper bound on the includes of one file, now and once the alias stub
\* is written
MaxIncs ==
  LET lens == { Len(disk[f]) : f \in Files } \cup {Len(AliasStub(AliasPage, PerfdmfBook))}
  IN  CHOOSE n \in lens : \A k \in lens : k <= n

\* the files and the directories they lie in
Paths == Files \cup UNION { { SubSeq(f, 1, k) : k \in 0..(Len(f) - 1) } : f \in Files }

\* the pairs (path, master key) not visited yet
Unvisited == Cardinality(Paths \X Masters) - Cardinality(visited)

\* the steps main has left outside the include loops
MainLeft ==
  IF phase \in {"done", "failed"} THEN 0
  ELSE 2 * (Len(MASTER_FILES) + 1 - m) + (IF phase = "master" THEN 1 ELSE 0)

RECURSIVE StackWork(_)
StackWork(st) == IF st = <<>> THEN 0 ELSE Len(Head(st).incs) + 1 + StackWork(Tail(st))

\* what is left to do: it is a natural number and every step lowers it
Measure == (MaxIncs + 2) * (Unvisited + MainLeft) + Len(pending) + StackWork(stack)

\* main or process_page is at a statement it can execute
CanStep ==
  AtMaster \/ AtEnd \/ InMainLoop \/ MainLoopOver \/ InPageLoop \/ PageLoopOver

\* C2: on every include graph, cycles included, the traversal terminates:
\* every step of main and of process_page lowers a natural number, main has
\* a next statement until it is done, and then the nav file is written; the
\* run ends otherwise only where a file it writes cannot be written, its path
\* being a directory.
C2_Terminates ==
  /\ [][Measure' < Measure]_vars
  /\ [](Measure >= 0)
  /\ [](phase \notin {"done", "failed"} => CanStep)
  /\ [](phase = "done" => dest = <<HeaderLine, BlankLine>> \o nav_lines)
  /\ [](phase = "failed" => \E p \in {AliasPage, DEST_NAV_FILE} : IsDirectory(FS, p))

\* C2 witness: main is done after processing a page that includes itself.
C2_Witness ==
  /\ phase = "done"
  /\ dest # <<>>
  /\ \E k \in DOMAIN calls :
       /\ calls[k].entry
       /\ calls[k].file \in Range(extract_include_files(FS, calls[k].file))

\* C3: every nav entry appended carries between 1 and MAX_NAV_DEPTH nesting
\* markers.
C3_DepthInRange ==
  \A i \in DOMAIN nav_lines :
    nav_lines[i] # BlankLine =>
      (1 <= nav_lines[i].stars /\ nav_lines[i].stars <= MAX_NAV_DEPTH)

\* C3 witness: an entry was appended for a page included by a page that is
\* itself at the maximum depth.
C3_Witness ==
  \E k \in DOMAIN calls :
    /\ calls[k].entry
    /\ calls[k].parent > 0
    /\ calls[calls[k].parent].level = MAX_NAV_DEPTH
    /\ OwnEntry(calls[k]).stars = MAX_NAV_DEPTH

\* an alias rule matches the page under the master key
AliasRuleFor(master_key, file) ==
  { ALIAS_MAP[k][file] : k \in { k \in {master_key, BaseName(master_key)} :
                                   k \in DOMAIN ALIAS_MAP /\ file \in DOMAIN ALIAS_MAP[k] } }

\* the includes of a page whose title resolution gives a title
TitledChildren(file) ==
  { i \in DOMAIN extract_include_files(FS, file) :
      ~IsUntitled(get_title_and_anchor(
                    read_text_lines(FS, extract_include_files(FS, file)[i]), FALSE).title) }

\* C4: when process_page handles an aggregator that an alias rule matches,
\* every entry it emits (its own and one per titled child) targets the alias
\* path, none targets the shared path, and it invokes process_page on none
\* of its children.
C4_AliasedAggregator ==
  \A k \in DOMAIN calls :
    (is_aggregator_page(FS, calls[k].file) /\ AliasRuleFor(calls[k].master_key, calls[k].file) # {})
      => /\ \A e \in Emitted(calls[k]) :
              /\ e.target \in AliasRuleFor(calls[k].master_key, calls[k].file)
              /\ e.target # calls[k].file
         /\ calls[k].entry =>
              calls[k].to - calls[k].from = 1 + Cardinality(TitledChildren(calls[k].file))
         /\ \A j \in DOMAIN calls : calls[j].parent # k

\* C4 witness: an aliased aggregator emitted its entry and a child's entry.
C4_Witness ==
  \E k \in DOMAIN calls :
    /\ is_aggregator_page(FS, calls[k].file)
    /\ AliasRuleFor(calls[k].master_key, calls[k].file) # {}
    /\ calls[k].to - calls[k].from >= 2

\* a line of the file is a heading of any level
HasHeading(lines) == \E i \in DOMAIN lines : HeadingMatch(Strip(lines[i].s))

\* C5: for a file without any heading line, get_title_and_anchor returns
\* "Untitled" with an empty anchor, in both modes.
C5_NoHeadingEmptyAnchor ==
  (t_out # <<>> /\ ~HasHeading(t_lines))
    => t_out[1] = TitleResult(Untitled, <<>>)

\* the identifiers of the anchor markers of a file
MarkerIds(lines) ==
  { AnchorId(Strip(lines[i].s)) : i \in { j \in DOMAIN lines : IsAnchorLine(Strip(lines[j].s)) } }

\* C6: in document-title mode the anchor returned with the title is the
\* identifier of an anchor marker of the file, or empty; it is never derived
\* from the title.
C6_DocAnchorNotDerived ==
  (t_out # <<>> /\ t_doc /\ t_out[1].title # Untitled)
    => t_out[1].anchor \in MarkerIds(t_lines) \cup {<<>>}

\* the first heading of level >= 2 of a file, 0 when there is none
FirstPageHeading(lines) ==
  IF \E i \in DOMAIN lines :
       HeadingMatch(Strip(lines[i].s)) /\ HeadingLevel(Strip(lines[i].s)) >= 2
  THEN CHOOSE i \in DOMAIN lines :
         /\ HeadingMatch(Strip(lines[i].s)) /\ HeadingLevel(Strip(lines[i].s)) >= 2
         /\ \A j \in 1..(i - 1) :
              ~(HeadingMatch(Strip(lines[j].s)) /\ HeadingLevel(Strip(lines[j].s)) >= 2)
  ELSE 0

\* the markers before line h with only skippable lines between them and h
AdjacentMarkers(lines, h) ==
  { a \in 1..(h - 1) :
      /\ IsAnchorLine(Strip(lines[a].s))
      /\ \A k \in (a + 1)..(h - 1) : Skippable(Strip(lines[k].s)) }

\* C7: in page-title mode the anchor is an explicit [[id]] only when that
\* marker precedes the title heading with nothing but skippable lines
\* between; otherwise it is the slug of the title.
C7_PageAnchorAdjacentOrSlug ==
  (t_out # <<>> /\ ~t_doc /\ FirstPageHeading(t_lines) > 0)
    => LET h == FirstPageHeading(t_lines)
           title == HeadingTitle(Strip(t_lines[h].s))
           ids == { AnchorId(Strip(t_lines[a].s)) : a \in AdjacentMarkers(t_lines, h) }
                    \ {<<>>}
       IN  /\ t_out[1].title = title
           /\ t_out[1].anchor \in (IF ids = {} THEN {make_anchor_from_title(title)} ELSE ids)

\* the number of blank lines among nav lines
RECURSIVE Blanks(_)
Blanks(nav) ==
  IF nav = <<>> THEN 0
  ELSE (IF Head(nav) = BlankLine THEN 1 ELSE 0) + Blanks(Tail(nav))

\* the masters that are processed: their entries have one marker
Books(nav) == Cardinality({ i \in DOMAIN nav : nav[i].stars = 1 })

\* C8: in the nav content, consecutive processed books are separated by
\* exactly one blank line and no blank line follows the last processed book.
C8_BlankLinesBetweenBooks ==
  phase = "done"
    => /\ nav_lines # <<>> => nav_lines[Len(nav_lines)] # BlankLine
       /\ Blanks(nav_lines) = Max(0, Books(nav_lines) - 1)
       /\ \A i \in 1..(Len(nav_lines) - 1) :
            ~(nav_lines[i] = BlankLine /\ nav_lines[i + 1] = BlankLine)

\* C9: a file whose title resolves to "Untitled" is skipped by every caller:
\* no entry carries that title, and under a master without a title no page
\* is processed.
C9_UntitledSkipped ==
  /\ \A i \in DOMAIN nav_lines : nav_lines[i].title # Untitled
  /\ \A k \in DOMAIN calls :
       get_title_and_anchor(read_text_lines(FS, calls[k].master_key), TRUE).title # Untitled

\* the entries the aliased aggregator c lists for its children
AliasChildEntries(c) ==
  IF c.aliased_aggregator THEN { nav_lines[i] : i \in (c.from + 2)..c.to } ELSE {}

\* the depth the children of a page at depth d are claimed to have
ChildrenDepthIs(depth(_)) ==
  /\ \A k \in DOMAIN calls :
       (calls[k].entry /\ calls[k].parent > 0)
         => OwnEntry(calls[k]).stars = depth(OwnEntry(calls[calls[k].parent]).stars)
  /\ \A k \in DOMAIN calls :
       \A e \in AliasChildEntries(calls[k]) :
         e.stars = depth(OwnEntry(calls[k]).stars)

OneDeeper(d) == d + 1

OneDeeperClamped(d) == Min(d + 1, MAX_NAV_DEPTH)

\* C10 as stated: a child page, and a child entry under an aliased
\* aggregator, is emitted one level deeper than its parent's entry, for
\* every parent depth from 2 to 4.
C10_ChildStrictlyDeeper == ChildrenDepthIs(OneDeeper)

\* C10 as amended: a child is emitted at depth min(d + 1, MAX_NAV_DEPTH):
\* one level deeper than a parent at depth 2 or 3, and at the parent's own
\* depth 4 under a parent at depth 4.
C10_ChildDeeperUpToMax == ChildrenDepthIs(OneDeeperClamped)

\* C10 witness: a child page's entry under a parent at depth 4, and one
\* under a parent at depth 2.
C10_Witness ==
  /\ \E k \in DOMAIN calls :
       /\ calls[k].entry /\ calls[k].parent > 0
       /\ OwnEntry(calls[calls[k].parent]).stars = MAX_NAV_DEPTH
  /\ \E k \in DOMAIN calls :
       /\ calls[k].entry /\ calls[k].parent > 0
       /\ OwnEntry(calls[calls[k].parent]).stars = 2
  /\ \E k \in DOMAIN calls : AliasChildEntries(calls[k]) # {}

====
